---------------------------- MODULE Spec2Model ----------------------------
(***************************************************************************)
(* A model of rubbledb's table layer: the integer codec (util/coding.rs),  *)
(* the block builder (table/block_builder.rs), the block iterator          *)
(* (table/block.rs), the block handle / footer (table/format.rs) and       *)
(* Table::open (table/table.rs).                                           *)
(*                                                                         *)
(* Unsigned integers are bit vectors (functions 0..W-1 -> {0,1}, bit 0     *)
(* the least significant), so u32 and u64 keep their full width.  Bytes    *)
(* and buffer offsets are small naturals.  A call that can fail returns a  *)
(* record whose tag is "Ok", "Err" or "Panic" (an abort of the process: a  *)
(* failed assert!, unwrap(), slice index, or overflow check).              *)
(***************************************************************************)
EXTENDS Integers, Sequences, FiniteSets, TLC

VARIABLES
    endian,       \* port::ENDIANNESS, fixed per target
    debug_build,  \* TRUE when the build checks arithmetic overflow
    dst,          \* codec: the Vec<u8> the put_* functions append to
    enc,          \* codec: the last put_* call (op, value, start, written)
    dec,          \* codec: the last decode call and what it returned
    footer,       \* format: the Footer that is encoded
    receiver,     \* format: the Footer that decode_from is called on
    fbuf,         \* format: the Vec<u8> handed to Footer::encode_to
    fenc,         \* format: the encode_to call (outcome, original_size)
    fdec,         \* format: the decode_from call and what it returned
    block_restart_interval,  \* options.block_restart_interval
    builder,      \* the BlockBuilder
    bcalls,       \* what has been called on the builder, and how it ended
    block,        \* the bytes of the block an iterator reads
    iter,         \* the BlockIterator
    scan,         \* what the iterator showed since it was last positioned
    table,        \* the last call of Table::open and how it ended
    readers,      \* two iterators over one block, and the last call on one of them
    ecall         \* the last call of decode_entry: its slice and its result

codecVars == <<dst, enc, dec>>
footerVars == <<footer, receiver, fbuf, fenc, fdec>>
blockVars == <<block_restart_interval, builder, bcalls, block, iter, scan>>
tableVars == <<table>>
readerVars == <<readers>>
entryVars == <<ecall>>
vars == <<endian, debug_build, codecVars, footerVars, blockVars, tableVars, readerVars,
          entryVars>>

\* what the codec's calls leave alone
notCodec == <<footerVars, blockVars, tableVars, readerVars, entryVars>>
\* what the footer's calls leave alone
notFooter == <<codecVars, blockVars, tableVars, readerVars, entryVars>>
\* what the calls on a block leave alone
notBlock == <<codecVars, footerVars, tableVars, readerVars, entryVars>>
\* what Table::open leaves alone
notTable == <<codecVars, footerVars, blockVars, readerVars, entryVars>>
\* what calls on the two iterators leave alone
notReaders == <<codecVars, footerVars, builder, bcalls, iter, scan, tableVars, entryVars>>
\* what decode_entry leaves alone
notEntry == <<codecVars, footerVars, blockVars, tableVars, readerVars>>

---------------------------------------------------------------------------
(* Bounds and widths *)

W8 == 8
W32 == 32
W64 == 64
\* bytes that may already be in the buffer before a value is appended
MaxPrefix == 1
\* bytes that may follow an encoded value
MaxTrail == 1

---------------------------------------------------------------------------
(* Sequences of bytes *)

\* &s[from..]  (0-based, s.len() >= from is checked by the caller)
SliceFrom(s, from) == SubSeq(s, from + 1, Len(s))

\* &s[from..to]
SliceRange(s, from, to) == SubSeq(s, from + 1, to)

Reverse(s) == [i \in 1..Len(s) |-> s[Len(s) + 1 - i]]

---------------------------------------------------------------------------
(* Bit vectors *)

BitAt(v, i) == IF i \in DOMAIN v THEN v[i] ELSE 0

Zero(W) == [i \in 0..(W - 1) |-> 0]

Pow2Bits(k, W) == [i \in 0..(W - 1) |-> IF i = k THEN 1 ELSE 0]

OnesBelow(k, W) == [i \in 0..(W - 1) |-> IF i < k THEN 1 ELSE 0]

AllOnes(W) == OnesBelow(W, W)

\* n as uW, for a natural n < 2^30
FromNat(n, W) == [i \in 0..(W - 1) |-> IF i > 30 THEN 0 ELSE (n \div (2 ^ i)) % 2]

\* v >> k
Shr(v, k) == [i \in DOMAIN v |-> BitAt(v, i + k)]

\* v < (1 << k)
LtPow2(v, k) == \A i \in DOMAIN v : i >= k => v[i] = 0

\* byte number j of v, counted from the least significant
ByteOf(v, j) ==
    BitAt(v, 8 * j) + 2 * BitAt(v, 8 * j + 1) + 4 * BitAt(v, 8 * j + 2)
    + 8 * BitAt(v, 8 * j + 3) + 16 * BitAt(v, 8 * j + 4) + 32 * BitAt(v, 8 * j + 5)
    + 64 * BitAt(v, 8 * j + 6) + 128 * BitAt(v, 8 * j + 7)

\* v as u8
AsU8(v) == ByteOf(v, 0)

\* the bytes of v, least significant first
BytesLE(v, n) == [j \in 1..n |-> ByteOf(v, j - 1)]

\* the uW whose little-endian bytes are bs
FromBytesLE(bs, W) ==
    [i \in 0..(W - 1) |->
        IF (i \div 8) + 1 <= Len(bs) THEN (bs[(i \div 8) + 1] \div (2 ^ (i % 8))) % 2 ELSE 0]

\* (byte as uW) << shift, for shift < W
ShlByte(byte, shift, W) ==
    [i \in 0..(W - 1) |->
        IF i >= shift /\ i - shift < 8 THEN (byte \div (2 ^ (i - shift))) % 2 ELSE 0]

\* a | b
OrBits(a, b) == [i \in DOMAIN a |-> IF a[i] = 1 \/ b[i] = 1 THEN 1 ELSE 0]

\* v | 128, v & 127 on a byte
Or128(byte) == IF byte >= 128 THEN byte ELSE byte + 128
And127(byte) == byte % 128

\* byte-wise a | b on u8
OrU8(a, b) == AsU8(OrBits(FromNat(a, W8), FromNat(b, W8)))

\* (a << s) on u8, for s < 8: the bits shifted out are lost
ShlU8(a, s) == (a * (2 ^ s)) % 256

\* the number of 7-bit groups of v, at least one
RECURSIVE Groups7(_)
Groups7(v) == IF LtPow2(v, 7) THEN 1 ELSE 1 + Groups7(Shr(v, 7))

U32Samples ==
    {Pow2Bits(k, W32) : k \in 0..(W32 - 1)} \cup {OnesBelow(k, W32) : k \in 0..W32}

U64Samples ==
    {Pow2Bits(k, W64) : k \in 0..(W64 - 1)} \cup {OnesBelow(k, W64) : k \in 0..W64}

\* bytes already in the buffer, and bytes put after a value
PrefixBytes == {128}
RawBytes == {0, 128}

---------------------------------------------------------------------------
(* Results *)

Ok(slice, value) == [tag |-> "Ok", slice |-> slice, value |-> value]
Err(kind) == [tag |-> "Err", slice |-> <<>>, value |-> kind]
Panic == [tag |-> "Panic", slice |-> <<>>, value |-> <<>>]

---------------------------------------------------------------------------
(* util/coding.rs *)

\* the shift amount of a u8 shift in a build without overflow checks
MaskShift(shift) == shift % 8

\* One pass of the loop of get_varint32_ptr_fallback: i counts the passes,
\* p is what is left of the slice, result the u8 accumulator.
RECURSIVE varint32_loop(_, _, _, _)
varint32_loop(p, i, result, checks) ==
    IF i >= 5 THEN Err("Other")
    ELSE LET shift == i * 7 IN
         IF shift >= Len(p) THEN Panic                 \* p[shift]
         ELSE LET byte == p[shift + 1]
                  rest == SliceFrom(p, 1)
              IN  IF shift >= 8 /\ checks THEN Panic   \* u8 << shift overflows
                  ELSE IF byte >= 128
                       THEN varint32_loop(rest, i + 1,
                                OrU8(result, ShlU8(And127(byte), MaskShift(shift))), checks)
                       ELSE Ok(rest, OrU8(result, ShlU8(byte, MaskShift(shift))))

get_varint32_ptr_fallback(p, checks) == varint32_loop(p, 0, 0, checks)

\* byteorder's read_u32 / read_u64 on a Cursor over bs
read_uint(bs, n, W, e) ==
    IF Len(bs) < n THEN Err("UnexpectedEof")
    ELSE LET b == SubSeq(bs, 1, n)
         IN  Ok(<<>>, FromBytesLE(IF e = "Little" THEN b ELSE Reverse(b), W))

Unwrap(r) == IF r.tag = "Ok" THEN r ELSE Panic

\* decode_fixed32 reading little-endian whatever the target is
decode_fixed32_le_only(slice, e) ==
    IF Len(slice) < 4 THEN Panic
    ELSE Unwrap(read_uint(SubSeq(slice, 1, 4), 4, W32, "Little"))

decode_fixed32(slice, e) ==
    IF Len(slice) < 4 THEN Panic                       \* slice[..4]
    ELSE Unwrap(read_uint(SubSeq(slice, 1, 4), 4, W32, e))

decode_fixed64(slice, e) ==
    IF Len(slice) < 4 THEN Panic                       \* slice[..4]
    ELSE Unwrap(read_uint(SubSeq(slice, 1, 4), 8, W64, e))

put_fixed32(buff, value, e) ==
    buff \o (IF e = "Little" THEN BytesLE(value, 4) ELSE Reverse(BytesLE(value, 4)))

put_fixed64(buff, value, e) ==
    buff \o (IF e = "Little" THEN BytesLE(value, 8) ELSE Reverse(BytesLE(value, 8)))

\* put_varint32 returns the new buffer and the count it reports
put_varint32(buff, v) ==
    LET b0 == Or128(AsU8(v))            \* (v | b) as u8
        b1 == AsU8(Shr(v, 7))
        b2 == AsU8(Shr(v, 14))
        b3 == AsU8(Shr(v, 21))
        b4 == AsU8(Shr(v, 28))
    IN  IF LtPow2(v, 7) THEN [buff |-> buff \o <<AsU8(v)>>, written |-> 1]
        ELSE IF LtPow2(v, 14) THEN [buff |-> buff \o <<b0, b1>>, written |-> 2]
        ELSE IF LtPow2(v, 21) THEN [buff |-> buff \o <<b0, b1, b2>>, written |-> 3]
        ELSE IF LtPow2(v, 28) THEN [buff |-> buff \o <<b0, b1, b2, b3>>, written |-> 4]
        ELSE [buff |-> buff \o <<b0, b1, b2, b3, b4>>, written |-> 5]

RECURSIVE varint64_put_loop(_, _, _)
varint64_put_loop(buff, v, bytes) ==
    IF ~LtPow2(v, 7)                                    \* while v >= b
    THEN varint64_put_loop(buff \o <<Or128(And127(AsU8(v)))>>, Shr(v, 7), bytes + 1)
    ELSE [buff |-> buff, written |-> bytes]

put_varint64(buff, v) == varint64_put_loop(buff, v, 0)

RECURSIVE varint64_get_loop(_, _, _, _)
varint64_get_loop(slice, p, n, result) ==
    IF n >= 10 \/ p >= Len(slice) THEN Err("IOError")
    ELSE LET byte == slice[p + 1]
             shift == n * 7
         IN  IF byte >= 128
             THEN varint64_get_loop(slice, p + 1, n + 1,
                                    OrBits(result, ShlByte(And127(byte), shift, W64)))
             ELSE Ok(SliceFrom(slice, p + 1), OrBits(result, ShlByte(byte, shift, W64)))

get_varint64(slice) == varint64_get_loop(slice, 0, 0, Zero(W64))

---------------------------------------------------------------------------
(* table/format.rs *)

MAX_ENCODED_LENGTH == 10 + 10

ENCODED_LENGTH == 2 * MAX_ENCODED_LENGTH + 8

\* 0xdb4775248b80fb57
TABLE_MAGIC_NUMBER == FromBytesLE(<<87, 251, 128, 139, 36, 117, 71, 219>>, W64)

\* v as u32
AsU32(v) == [i \in 0..(W32 - 1) |-> BitAt(v, i)]

\* (hi as u64) << 32 | lo as u64
JoinU32(hi, lo) == [i \in 0..(W64 - 1) |-> IF i < 32 THEN lo[i] ELSE hi[i - 32]]

BlockHandle_new == [offset |-> Zero(W64), size |-> Zero(W64)]

Footer_new == [metaindex_handle |-> BlockHandle_new, index_handle |-> BlockHandle_new]

\* BlockHandle::encode_to: the new buffer, or Panic on an unset field
BlockHandle_encode_to(h, buff) ==
    IF h.offset = AllOnes(W64) \/ h.size = AllOnes(W64) THEN Panic
    ELSE Ok(put_varint64(put_varint64(buff, h.offset).buff, h.size).buff, <<>>)

\* BlockHandle::decode_from: the result and the handle afterwards
\* BlockHandle::decode_from with self.offset assigned as soon as the first
\* varint is parsed
BlockHandle_decode_from_eager(h, input) ==
    LET first == get_varint64(input) IN
    IF first.tag # "Ok" THEN [res |-> first, handle |-> h]
    ELSE LET second == get_varint64(first.slice) IN
         IF second.tag # "Ok" THEN [res |-> second, handle |-> [h EXCEPT !.offset = first.value]]
         ELSE [res |-> Ok(second.slice, <<>>),
               handle |-> [offset |-> first.value, size |-> second.value]]

BlockHandle_decode_from(h, input) ==
    LET first == get_varint64(input) IN
    IF first.tag # "Ok" THEN [res |-> first, handle |-> h]
    ELSE LET second == get_varint64(first.slice) IN
         IF second.tag # "Ok" THEN [res |-> second, handle |-> h]
         ELSE [res |-> Ok(second.slice, <<>>),
               handle |-> [offset |-> first.value, size |-> second.value]]

\* dst.resize(n, 0)
Resize(buff, n) ==
    IF Len(buff) >= n THEN SubSeq(buff, 1, n)
    ELSE buff \o [i \in 1..(n - Len(buff)) |-> 0]

\* Footer::encode_to: Ok with the new buffer, or Panic
Footer_encode_to(f, buff, e) ==
    LET original_size == Len(buff)
        m == BlockHandle_encode_to(f.metaindex_handle, buff)
    IN  IF m.tag # "Ok" THEN Panic
        ELSE LET i == BlockHandle_encode_to(f.index_handle, m.slice) IN
             IF i.tag # "Ok" THEN Panic
             ELSE LET padded == Resize(i.slice, 2 * MAX_ENCODED_LENGTH)
                      lo == put_fixed32(padded, AsU32(TABLE_MAGIC_NUMBER), e)
                      hi == put_fixed32(lo, AsU32(Shr(TABLE_MAGIC_NUMBER, 32)), e)
                  IN  IF Len(hi) = original_size + ENCODED_LENGTH
                      THEN Ok(hi, <<>>) ELSE Panic

\* The handles of Footer::decode_from, once the magic number has matched.
Footer_decode_handles(f, input, magic_slice) ==
    LET m == BlockHandle_decode_from(f.metaindex_handle, input) IN
    IF m.res.tag # "Ok"
    THEN [res |-> m.res, footer |-> [f EXCEPT !.metaindex_handle = m.handle]]
    ELSE LET i == BlockHandle_decode_from(f.index_handle, input)
             f1 == [f EXCEPT !.metaindex_handle = m.handle]
         IN  IF i.res.tag # "Ok"
             THEN [res |-> i.res, footer |-> [f1 EXCEPT !.index_handle = i.handle]]
             ELSE [res |-> Ok(SliceFrom(magic_slice, 8), <<>>),
                   footer |-> [f1 EXCEPT !.index_handle = i.handle]]

\* Footer::decode_from with the handles decoded before the magic is compared
Footer_decode_from_handles_first(f, input, e) ==
    IF Len(input) < ENCODED_LENGTH - 8 THEN [res |-> Panic, footer |-> f]
    ELSE LET magic_slice == SliceFrom(input, ENCODED_LENGTH - 8)
             magic_lo == decode_fixed32(magic_slice, e)
             magic_hi == IF Len(magic_slice) < 4 THEN Panic
                         ELSE decode_fixed32(SliceFrom(magic_slice, 4), e)
             h == Footer_decode_handles(f, input, magic_slice)
         IN  IF magic_lo.tag # "Ok" \/ magic_hi.tag # "Ok" THEN [res |-> Panic, footer |-> f]
             ELSE IF h.res.tag # "Ok" THEN h
             ELSE IF JoinU32(magic_hi.value, magic_lo.value) # TABLE_MAGIC_NUMBER
                  THEN [res |-> Err("Corruption"), footer |-> h.footer]
                  ELSE h

\* Footer::decode_from: the result and the footer afterwards
Footer_decode_from(f, input, e) ==
    IF Len(input) < ENCODED_LENGTH - 8 THEN [res |-> Panic, footer |-> f]
    ELSE LET magic_slice == SliceFrom(input, ENCODED_LENGTH - 8)
             magic_lo == decode_fixed32(magic_slice, e)
             magic_hi == IF Len(magic_slice) < 4 THEN Panic
                         ELSE decode_fixed32(SliceFrom(magic_slice, 4), e)
         IN  IF magic_lo.tag # "Ok" \/ magic_hi.tag # "Ok" THEN [res |-> Panic, footer |-> f]
             ELSE IF JoinU32(magic_hi.value, magic_lo.value) # TABLE_MAGIC_NUMBER
                  THEN [res |-> Err("Corruption"), footer |-> f]
                  ELSE Footer_decode_handles(f, input, magic_slice)

---------------------------------------------------------------------------
(* comparator.rs: the ordering the caller supplies, here bytewise *)

RECURSIVE Compare(_, _)
Compare(a, b) ==
    IF a = <<>> /\ b = <<>> THEN 0
    ELSE IF a = <<>> THEN -1
    ELSE IF b = <<>> THEN 1
    ELSE IF a[1] < b[1] THEN -1
    ELSE IF a[1] > b[1] THEN 1
    ELSE Compare(Tail(a), Tail(b))

---------------------------------------------------------------------------
(* table/block_builder.rs *)

\* n as u32
U32(n) == FromNat(n, W32)

BlockBuilder_new ==
    [buffer |-> <<>>, restarts |-> <<0>>, counter |-> 0, finished |-> FALSE,
     last_key |-> <<>>]

\* reset that leaves last_key as it is
reset_keeps_last_key(b) ==
    [buffer |-> <<>>, restarts |-> <<0>>, counter |-> 0, finished |-> FALSE,
     last_key |-> b.last_key]

\* reset that leaves the restart list as it is
reset_keeps_restarts(b) ==
    [buffer |-> <<>>, restarts |-> b.restarts, counter |-> 0, finished |-> FALSE,
     last_key |-> <<>>]

BlockBuilder_reset(b) ==
    [buffer |-> <<>>, restarts |-> <<0>>, counter |-> 0, finished |-> FALSE,
     last_key |-> <<>>]

BlockBuilder_empty(b) == Len(b.buffer) = 0

\* the estimate without the restart array length
estimate_without_count(b) == Len(b.buffer) + Len(b.restarts) * 4

BlockBuilder_current_size_estimate(b) == Len(b.buffer) + Len(b.restarts) * 4 + 4

RECURSIVE put_restarts(_, _, _)
put_restarts(buff, restarts, e) ==
    IF restarts = <<>> THEN buff
    ELSE put_restarts(put_fixed32(buff, U32(Head(restarts)), e), Tail(restarts), e)

BlockBuilder_finish(b, e) ==
    [b EXCEPT !.buffer = put_fixed32(put_restarts(b.buffer, b.restarts, e),
                                     U32(Len(b.restarts)), e),
              !.finished = TRUE]

\* the loop of add that counts the bytes key shares with the last key
RECURSIVE shared_loop(_, _, _, _)
shared_loop(last_key_piece, key, shared, min_length) ==
    IF shared < min_length /\ last_key_piece[shared + 1] = key[shared + 1]
    THEN shared_loop(last_key_piece, key, shared + 1, min_length)
    ELSE shared

Min(a, b) == IF a < b THEN a ELSE b

\* add restarts the compression once counter has reached the interval
restart_late(counter, interval) == ~(counter <= interval)

restart_due(counter, interval) == ~(counter < interval)

\* the third assertion of add with >= in place of >
key_not_below(buffer, key, last_key_piece) ==
    Len(buffer) = 0 \/ Compare(key, last_key_piece) >= 0

\* the third assertion of add
key_in_order(buffer, key, last_key_piece) ==
    Len(buffer) = 0 \/ Compare(key, last_key_piece) > 0

\* BlockBuilder::add: the builder afterwards, and whether the call returned
BlockBuilder_add(b, interval, key, value, e) ==
    IF b.finished \/ ~(b.counter <= interval)
       \/ ~key_in_order(b.buffer, key, b.last_key)
    THEN [b |-> b, out |-> "panic"]
    ELSE LET due == restart_due(b.counter, interval)
             shared == IF due THEN 0
                       ELSE shared_loop(b.last_key, key, 0,
                                        Min(Len(b.last_key), Len(key)))
             b1 == IF due
                   THEN [b EXCEPT !.restarts = Append(b.restarts, Len(b.buffer)),
                                  !.counter = 0]
                   ELSE b
             non_shared == Len(key) - shared
             header == put_fixed32(put_fixed32(put_fixed32(b1.buffer, U32(shared), e),
                                               U32(non_shared), e),
                                   U32(Len(value)), e)
         IN  IF shared > non_shared                  \* key[shared..non_shared]
             THEN [b |-> [b1 EXCEPT !.buffer = header], out |-> "panic"]
             ELSE [b |-> [b1 EXCEPT
                            !.buffer = header \o SliceRange(key, shared, non_shared)
                                              \o value,
                            !.last_key = key,
                            !.counter = b1.counter + 1],
                   out |-> "ok"]

---------------------------------------------------------------------------
(* table/block.rs *)

\* v as usize; an offset of 2^24 or more stands for one beyond every buffer
AsUsize(v) ==
    IF ByteOf(v, 3) # 0 THEN 2 ^ 24
    ELSE ByteOf(v, 0) + 256 * ByteOf(v, 1) + 65536 * ByteOf(v, 2)

\* str::from_utf8(bs).is_ok()
RECURSIVE IsUtf8(_)
IsUtf8(bs) ==
    LET n == Len(bs)
        Cont(i) == i <= n /\ bs[i] >= 128 /\ bs[i] <= 191
        In(i, lo, hi) == i <= n /\ bs[i] >= lo /\ bs[i] <= hi
    IN  IF n = 0 THEN TRUE
        ELSE IF bs[1] < 128 THEN IsUtf8(SliceFrom(bs, 1))
        ELSE IF In(1, 194, 223) THEN Cont(2) /\ IsUtf8(SliceFrom(bs, 2))
        ELSE IF bs[1] = 224 THEN In(2, 160, 191) /\ Cont(3) /\ IsUtf8(SliceFrom(bs, 3))
        ELSE IF bs[1] = 237 THEN In(2, 128, 159) /\ Cont(3) /\ IsUtf8(SliceFrom(bs, 3))
        ELSE IF In(1, 225, 239) THEN Cont(2) /\ Cont(3) /\ IsUtf8(SliceFrom(bs, 3))
        ELSE IF bs[1] = 240
             THEN In(2, 144, 191) /\ Cont(3) /\ Cont(4) /\ IsUtf8(SliceFrom(bs, 4))
        ELSE IF In(1, 241, 243)
             THEN Cont(2) /\ Cont(3) /\ Cont(4) /\ IsUtf8(SliceFrom(bs, 4))
        ELSE IF bs[1] = 244
             THEN In(2, 128, 143) /\ Cont(3) /\ Cont(4) /\ IsUtf8(SliceFrom(bs, 4))
        ELSE FALSE

\* a decoded fixed32 as usize
FixedAsUsize(r) == IF r.tag = "Ok" THEN Ok(<<>>, AsUsize(r.value)) ELSE Panic

\* Block::num_restarts
Block_num_restarts(data, e) ==
    IF Len(data) < 4 THEN Panic
    ELSE FixedAsUsize(decode_fixed32(SliceFrom(data, Len(data) - 4), e))

\* OwnedBlock::new once num_restarts is read: Ok with the restart_offset
OwnedBlock_with(contents, num_restarts) ==
    IF num_restarts.tag # "Ok" THEN Panic
    ELSE IF num_restarts.value > (Len(contents) - 4) \div 4 THEN Err("Other")
    ELSE Ok(<<>>, Len(contents) - (1 + num_restarts.value) * 4)

\* OwnedBlock::new: Ok with the restart_offset, Err, or Panic
OwnedBlock_new(contents, e) ==
    IF Len(contents) < 4 THEN Panic
    ELSE OwnedBlock_with(contents, Block_num_restarts(contents, e))

\* decode_entry: the key delta and the three header fields
DecodedEntry(new_slice, shared, non_shared, value_length) ==
    [tag |-> "Ok", new_slice |-> new_slice, shared |-> shared,
     non_shared |-> non_shared, value_length |-> value_length]

EntryFailed(tag) ==
    [tag |-> tag, new_slice |-> <<>>, shared |-> 0, non_shared |-> 0, value_length |-> 0]

\* the length check that ends decode_entry
EntryChecked(new_slice, shared, non_shared, value_length) ==
    IF Len(new_slice) < non_shared + value_length THEN EntryFailed("Err")
    ELSE DecodedEntry(new_slice, shared, non_shared, value_length)

\* the fallback path of decode_entry, one field after the other
decode_entry_value_length(f1, f2, f3) ==
    IF f3.tag # "Ok" THEN EntryFailed(f3.tag)
    ELSE EntryChecked(f3.slice, f1.value, f2.value, f3.value)

decode_entry_non_shared(f1, f2, checks) ==
    IF f2.tag # "Ok" THEN EntryFailed(f2.tag)
    ELSE decode_entry_value_length(f1, f2, get_varint32_ptr_fallback(f2.slice, checks))

decode_entry_shared(f1, checks) ==
    IF f1.tag # "Ok" THEN EntryFailed(f1.tag)
    ELSE decode_entry_non_shared(f1, get_varint32_ptr_fallback(f1.slice, checks), checks)

decode_entry(p, checks) ==
    IF Len(p) < 3 THEN EntryFailed("Err")
    ELSE IF p[1] < 128 /\ p[2] < 128 /\ p[3] < 128
         THEN EntryChecked(SliceFrom(p, 3), p[1], p[2], p[3])
         ELSE decode_entry_shared(get_varint32_ptr_fallback(p, checks), checks)

\* BlockIterator::new; out tells how the last call on the iterator ended
BlockIterator_new(restarts, num_restarts) ==
    [key |-> <<>>, status |-> "Ok", value_offset |-> 0, value_len |-> 0,
     restarts |-> restarts, num_restarts |-> num_restarts, current |-> restarts,
     restart_index |-> num_restarts,
     out |-> IF num_restarts > 0 THEN "ok" ELSE "panic"]

\* Block::iter_slice on a block with a trailer
iter_slice(restart_offset, num_restarts) ==
    IF num_restarts.value = 0 THEN BlockIterator_new(0, 0)
    ELSE BlockIterator_new(restart_offset, num_restarts.value)

\* the block OwnedBlock::new made, handed to iter
Block_opened(blk, data, e) ==
    IF blk.tag # "Ok"
    THEN [BlockIterator_new(0, 0) EXCEPT
             !.out = IF blk.tag = "Err" THEN "error" ELSE "panic"]
    ELSE iter_slice(blk.value, Block_num_restarts(data, e))

\* OwnedBlock::new(data) and iter() on it
Block_iter(data, e) == Block_opened(OwnedBlock_new(data, e), data, e)

Aborted(it) == [it EXCEPT !.out = "panic"]

next_entry_offset(it) == it.value_offset + it.value_len

get_restart_point(it, data, index, e) ==
    IF ~(index < it.num_restarts) THEN Panic
    ELSE IF it.restarts + index * 4 > Len(data) THEN Panic
    ELSE FixedAsUsize(decode_fixed32(SliceFrom(data, it.restarts + index * 4), e))

\* seek_to_restart_point once the restart point is read
restart_point_set(it1, rp) ==
    IF rp.tag # "Ok" THEN Aborted(it1)
    ELSE [it1 EXCEPT !.value_offset = rp.value]

seek_to_restart_point(it, data, index, e) ==
    restart_point_set([it EXCEPT !.key = <<>>, !.restart_index = index],
                      get_restart_point(it, data, index, e))

is_valid(it) == it.current < it.restarts

corruption_error(it) ==
    [it EXCEPT !.current = it.restarts, !.restart_index = it.num_restarts,
               !.status = "Corruption", !.key = <<>>]

\* the loop at the end of parse_next_key that moves restart_index forward
RECURSIVE advance_restart_index(_, _, _)
RECURSIVE advance_past(_, _, _, _)
advance_past(it, data, rp, e) ==
    IF rp.tag # "Ok" THEN Aborted(it)
    ELSE IF rp.value < it.current
         THEN advance_restart_index([it EXCEPT !.restart_index = it.restart_index + 1],
                                    data, e)
         ELSE it

advance_restart_index(it, data, e) ==
    IF it.restart_index + 1 < it.num_restarts
    THEN advance_past(it, data, get_restart_point(it, data, it.restart_index + 1, e), e)
    ELSE it

\* what parse_next_key returns: the iterator afterwards and the value
Parsed(it) == [it |-> it, ret |-> it.out = "ok"]
NotParsed(it) == [it |-> it, ret |-> FALSE]

\* parse_next_key from the decoded entry on
parse_entry(it1, entry, data, e) ==
    IF entry.tag = "Panic" THEN NotParsed(Aborted(it1))
    ELSE IF entry.tag = "Err" THEN NotParsed(corruption_error(it1))
    ELSE IF Len(it1.key) < entry.shared THEN NotParsed(corruption_error(it1))
    ELSE IF ~IsUtf8(SubSeq(entry.new_slice, 1, entry.non_shared))
         THEN NotParsed(Aborted(it1))
    ELSE Parsed(advance_restart_index(
                    [it1 EXCEPT !.key = SubSeq(entry.new_slice, 1, entry.non_shared),
                                !.value_offset = entry.non_shared,
                                !.value_len = entry.value_length],
                    data, e))

\* parse_next_key once current is set
parse_at(it1, data, e, checks) ==
    IF it1.current > Len(data) THEN NotParsed(Aborted(it1))
    ELSE IF Len(SliceFrom(data, it1.current)) = 0
         THEN NotParsed([it1 EXCEPT !.current = it1.restarts,
                                    !.restart_index = it1.num_restarts])
         ELSE parse_entry(it1, decode_entry(SliceFrom(data, it1.current), checks), data, e)

parse_next_key(it, data, e, checks) ==
    parse_at([it EXCEPT !.current = next_entry_offset(it)], data, e, checks)

\* value(): self.data[value_offset..value_offset + value_len], which aborts
\* when the range is out of bounds
value_bytes(it, data) ==
    IF it.value_offset + it.value_len > Len(data)
    THEN [tag |-> "Panic", bytes |-> <<>>]
    ELSE [tag |-> "Ok",
          bytes |-> SliceRange(data, it.value_offset, it.value_offset + it.value_len)]

\* BlockIterator::key
BlockIterator_key(it) ==
    IF ~is_valid(it) THEN Panic ELSE Ok(it.key, <<>>)

\* BlockIterator::value
BlockIterator_value(it, data) ==
    IF ~is_valid(it) \/ value_bytes(it, data).tag = "Panic" THEN Panic
    ELSE Ok(value_bytes(it, data).bytes, <<>>)

\* step without its assert
step_unchecked(it, data, e, checks) == parse_next_key(it, data, e, checks).it

BlockIterator_step(it, data, e, checks) ==
    IF ~is_valid(it) THEN Aborted(it)
    ELSE parse_next_key(it, data, e, checks).it

\* the loop of prev
RECURSIVE prev_loop(_, _, _, _)
RECURSIVE prev_back(_, _, _, _, _)
prev_back(it, data, original, rp, e) ==
    IF rp.tag # "Ok" THEN Aborted(it)
    ELSE IF rp.value >= original
         THEN IF it.restart_index = 0
              THEN [it EXCEPT !.current = it.restarts, !.restart_index = it.num_restarts]
              ELSE prev_loop([it EXCEPT !.restart_index = it.restart_index - 1],
                             data, original, e)
         ELSE it

prev_loop(it, data, original, e) ==
    prev_back(it, data, original, get_restart_point(it, data, it.restart_index, e), e)

BlockIterator_prev(it, data, e) ==
    IF ~is_valid(it) THEN Aborted(it)
    ELSE prev_loop(it, data, it.current, e)

\* A loop of the iterator that comes back to a state it has been in never
\* ends: the call does not return.
Hung(it) == [it EXCEPT !.out = "hang"]

\* the bisection of seek: the restart index it ends on, or how it failed
RECURSIVE seek_bisect(_, _, _, _, _, _, _)
RECURSIVE seek_probe(_, _, _, _, _, _, _, _)
RECURSIVE seek_compare(_, _, _, _, _, _, _, _)
seek_compare(it, data, target, left, right, entry, e, checks) ==
    IF entry.tag = "Panic" THEN [tag |-> "Panic", left |-> left]
    ELSE IF entry.tag = "Err" \/ entry.shared # 0
         THEN [tag |-> "Corruption", left |-> left]
    ELSE IF Compare(entry.new_slice, target) < 0
         THEN seek_bisect(it, data, target, (left + right + 1) \div 2, right, e, checks)
         ELSE seek_bisect(it, data, target, left, (left + right + 1) \div 2 - 1, e, checks)

seek_probe(it, data, target, left, right, region_offset, e, checks) ==
    IF region_offset.tag # "Ok" \/ region_offset.value > Len(data)
    THEN [tag |-> "Panic", left |-> left]
    ELSE seek_compare(it, data, target, left, right,
                      decode_entry(SliceFrom(data, region_offset.value), checks),
                      e, checks)

seek_bisect(it, data, target, left, right, e, checks) ==
    IF left < right
    THEN seek_probe(it, data, target, left, right,
                    get_restart_point(it, data, (left + right + 1) \div 2, e), e, checks)
    ELSE [tag |-> "Ok", left |-> left]

\* the linear search of seek
RECURSIVE seek_scan(_, _, _, _, _, _)
RECURSIVE seek_scan_parsed(_, _, _, _, _, _)
seek_scan_parsed(r, data, target, been, e, checks) ==
    IF ~r.ret THEN r.it
    ELSE IF Compare(r.it.key, target) >= 0 THEN r.it
    ELSE IF r.it \in been THEN Hung(r.it)
    ELSE seek_scan(r.it, data, target, been \cup {r.it}, e, checks)

seek_scan(it, data, target, been, e, checks) ==
    seek_scan_parsed(parse_next_key(it, data, e, checks), data, target, been, e, checks)

\* seek from the restart point the bisection ended on
seek_from(it1, data, target, e, checks) ==
    IF it1.out # "ok" THEN it1
    ELSE seek_scan(it1, data, target, {}, e, checks)

seek_found(it, data, target, found, e, checks) ==
    IF found.tag = "Panic" THEN Aborted(it)
    ELSE IF found.tag = "Corruption" THEN corruption_error(it)
    ELSE seek_from(seek_to_restart_point(it, data, found.left, e), data, target, e, checks)

BlockIterator_seek(it, data, target, e, checks) ==
    seek_found(it, data, target,
               seek_bisect(it, data, target, 0, it.num_restarts - 1, e, checks),
               e, checks)

\* parse_next_key on an iterator that seek_to_restart_point has moved
parse_first(it1, data, e, checks) ==
    IF it1.out # "ok" THEN it1
    ELSE parse_next_key(it1, data, e, checks).it

BlockIterator_seek_to_first(it, data, e, checks) ==
    parse_first(seek_to_restart_point(it, data, 0, e), data, e, checks)

\* the loop of seek_to_last
RECURSIVE seek_to_last_loop(_, _, _, _, _)
RECURSIVE seek_to_last_parsed(_, _, _, _, _)
seek_to_last_parsed(r, data, been, e, checks) ==
    IF r.ret /\ next_entry_offset(r.it) < r.it.restarts
    THEN IF r.it \in been THEN Hung(r.it)
         ELSE seek_to_last_loop(r.it, data, been \cup {r.it}, e, checks)
    ELSE r.it

seek_to_last_loop(it, data, been, e, checks) ==
    seek_to_last_parsed(parse_next_key(it, data, e, checks), data, been, e, checks)

seek_to_last_from(it1, data, e, checks) ==
    IF it1.out # "ok" THEN it1
    ELSE seek_to_last_loop(it1, data, {}, e, checks)

BlockIterator_seek_to_last(it, data, e, checks) ==
    seek_to_last_from(seek_to_restart_point(it, data, it.num_restarts - 1, e),
                      data, e, checks)

\* a call that writes every iterator over the block
write_all(its, r, it) == [q \in DOMAIN its |-> it]

\* a call on the r-th of the iterators over one block: a method of
\* BlockIterator takes self and writes no other iterator; data is borrowed
write_self(its, r, it) == [its EXCEPT ![r] = it]

---------------------------------------------------------------------------
(* table/format.rs read_block, table/table.rs *)

BLOCK_TRAILER_SIZE == 5

\* one call on the file: seek(SeekFrom::End(-n)), seek(SeekFrom::Start(at))
\* or read_exact of n bytes
FileOp(op, n, at) == [op |-> op, n |-> n, at |-> at]

\* what a call that reads the file returns: its result, the calls it made
\* on the file in order, and whether a Table was constructed
Outcome(res, log, made) == [res |-> res, log |-> log, made |-> made]

\* snappy::uncompress: a stream that holds only the length 0 is the empty
\* payload; no other byte string of this model is a Snappy stream
snappy_uncompress(buff) ==
    IF buff = <<0>> THEN Ok(<<>>, <<>>) ELSE Err("Corruption")

\* the match on buff[n] that ends read_block
read_block_type(buff, n) ==
    IF ~(n < Len(buff)) THEN Panic
    ELSE IF buff[n + 1] = 0 THEN Ok(buff, <<>>)
    ELSE IF buff[n + 1] = 1 THEN snappy_uncompress(buff)
    ELSE Err("Corruption")

\* read_block: buff is Vec::with_capacity(n + BLOCK_TRAILER_SIZE), whose
\* length is 0, so read_exact is handed an empty slice and reads nothing.
\* A seek to an offset above i64::MAX fails.
read_block(file, handle) ==
    IF BitAt(handle.offset, W64 - 1) = 1
    THEN Outcome(Err("IOError"), <<FileOp("seek_start", 0, handle.offset)>>, FALSE)
    ELSE Outcome(read_block_type(<<>>, AsUsize(handle.size)),
                 <<FileOp("seek_start", 0, handle.offset),
                   FileOp("read_exact", 0, Zero(W64))>>, FALSE)

\* Table::read_meta
read_meta(footer_read) == Ok(<<>>, <<>>)

\* ReadOptions::new(): the source declares ReadOptions without fields, so the
\* value verify_checksums starts with is whatever the caller of the model
\* hands in
ReadOptions_new(verify_checksums) == [verify_checksums |-> verify_checksums]

\* the options Table::open hands to read_block for the index block: opt as
\* ReadOptions::new() made it; opt.verify_checksums = options.paranoid_checks
\* is assigned after read_block has returned
index_read_options(paranoid_checks, opt) == opt

\* Table::open from the index block on: the Table is built, then read_meta
table_open_index(footer_read, index_block, log) ==
    IF index_block.res.tag # "Ok"
    THEN Outcome(index_block.res, log \o index_block.log, FALSE)
    ELSE Outcome(read_meta(footer_read), log \o index_block.log, TRUE)

\* Table::open from the decoded footer on
table_open_footer(file, decoded, log) ==
    IF decoded.res.tag # "Ok" THEN Outcome(decoded.res, log, FALSE)
    ELSE table_open_index(decoded.footer,
                          read_block(file, decoded.footer.index_handle), log)

\* Table::open from the seek on: seek(End(-ENCODED_LENGTH)) fails on a file
\* shorter than that; otherwise read_exact finds its ENCODED_LENGTH bytes
table_open_read(file, e) ==
    IF Len(file) < ENCODED_LENGTH
    THEN Outcome(Err("IOError"), <<FileOp("seek_end", ENCODED_LENGTH, Zero(W64))>>, FALSE)
    ELSE table_open_footer(file,
             Footer_decode_from(Footer_new, SliceFrom(file, Len(file) - ENCODED_LENGTH), e),
             <<FileOp("seek_end", ENCODED_LENGTH, Zero(W64)),
               FileOp("read_exact", ENCODED_LENGTH, Zero(W64))>>)

\* Table::open with the size check left out
Table_open_unchecked(file, size, e) == table_open_read(file, e)

\* Table::open
Table_open(file, size, e) ==
    IF size < ENCODED_LENGTH
    THEN Outcome(Err("Corruption"), <<>>, FALSE)
    ELSE table_open_read(file, e)

---------------------------------------------------------------------------
(* The codec on its own: one value is appended to a buffer, bytes may      *)
(* follow it, and one decoder reads the buffer from where the value began. *)

NoCall == [op |-> "none", v |-> <<>>, start |-> 0, written |-> 0]
NoResult == [op |-> "none", res |-> Panic]
NoEncode == [op |-> "none", tag |-> "Ok", original_size |-> 0, edits |-> 0]
NoDecode == [op |-> "none", res |-> Panic, before |-> Footer_new]
\* the last call on the builder, and the buffer length it found
NoCalls ==
    [added |-> <<>>, finishes |-> 0, finish_at |-> 0, out |-> "ok",
     call |-> [op |-> "none", key |-> <<>>, value |-> <<>>], before |-> 0,
     estimate |-> 0]
NoIter == [BlockIterator_new(0, 0) EXCEPT !.out = "none"]
NoScan == [from |-> "none", last |-> "none", target |-> <<>>, seen |-> <<>>]
NoReaders ==
    [open |-> FALSE, contents |-> <<>>, its |-> <<NoIter, NoIter>>,
     alone |-> <<NoIter, NoIter>>, sought |-> <<FALSE, FALSE>>,
     last |-> [r |-> 0, op |-> "none", was_valid |-> FALSE, ret |-> Panic,
               before |-> NoIter]]
NoEntry == [op |-> "none", p |-> <<>>, res |-> EntryFailed("Panic")]
NoOpen == [op |-> "none", file |-> <<>>, size |-> 0, res |-> Panic, log |-> <<>>,
           made |-> FALSE, paranoid_checks |-> FALSE, verify_checksums |-> FALSE]

U64Few == {Zero(W64), Pow2Bits(0, W64), Pow2Bits(7, W64), AllOnes(W64)}

HandleSamples == [offset : U64Few, size : U64Few]

InitCodec ==
    /\ endian \in {"Little", "Big"}
    /\ debug_build \in BOOLEAN
    /\ dst = <<>>
    /\ enc = NoCall
    /\ dec = NoResult
    /\ footer = Footer_new
    /\ receiver = Footer_new
    /\ fbuf = <<>>
    /\ fenc = NoEncode
    /\ fdec = NoDecode
    /\ block_restart_interval = 1
    /\ builder = BlockBuilder_new
    /\ bcalls = NoCalls
    /\ block = <<>>
    /\ iter = NoIter
    /\ scan = NoScan
    /\ table = NoOpen
    /\ readers = NoReaders
    /\ ecall = NoEntry

\* a byte that is in the buffer before the call, or follows the value
CodecPush(b) ==
    /\ dec.op = "none"
    /\ IF enc.op = "none" THEN Len(dst) < MaxPrefix
       ELSE Len(dst) < enc.start + enc.written + MaxTrail
    /\ dst' = Append(dst, b)
    /\ UNCHANGED <<endian, debug_build, enc, dec>>
    /\ UNCHANGED notCodec

CodecPutVarint32(v) ==
    /\ enc.op = "none"
    /\ dec.op = "none"
    /\ LET r == put_varint32(dst, v)
       IN  /\ dst' = r.buff
           /\ enc' = [op |-> "put_varint32", v |-> v, start |-> Len(dst),
                      written |-> r.written]
    /\ UNCHANGED <<endian, debug_build, dec>>
    /\ UNCHANGED notCodec

CodecPutVarint64(v) ==
    /\ enc.op = "none"
    /\ dec.op = "none"
    /\ LET r == put_varint64(dst, v)
       IN  /\ dst' = r.buff
           /\ enc' = [op |-> "put_varint64", v |-> v, start |-> Len(dst),
                      written |-> r.written]
    /\ UNCHANGED <<endian, debug_build, dec>>
    /\ UNCHANGED notCodec

CodecPutFixed32(v) ==
    /\ enc.op = "none"
    /\ dec.op = "none"
    /\ dst' = put_fixed32(dst, v, endian)
    /\ enc' = [op |-> "put_fixed32", v |-> v, start |-> Len(dst),
               written |-> Len(dst') - Len(dst)]
    /\ UNCHANGED <<endian, debug_build, dec>>
    /\ UNCHANGED notCodec

CodecPutFixed64(v) ==
    /\ enc.op = "none"
    /\ dec.op = "none"
    /\ dst' = put_fixed64(dst, v, endian)
    /\ enc' = [op |-> "put_fixed64", v |-> v, start |-> Len(dst),
               written |-> Len(dst') - Len(dst)]
    /\ UNCHANGED <<endian, debug_build, dec>>
    /\ UNCHANGED notCodec

\* the slice a decoder is handed: the buffer from where the value began
CodecInput == SliceFrom(dst, enc.start)

CodecGetVarint32 ==
    /\ dec.op = "none"
    /\ dec' = [op |-> "get_varint32_ptr_fallback",
               res |-> get_varint32_ptr_fallback(CodecInput, debug_build)]
    /\ UNCHANGED <<endian, debug_build, dst, enc>>
    /\ UNCHANGED notCodec

CodecGetVarint64 ==
    /\ dec.op = "none"
    /\ dec' = [op |-> "get_varint64", res |-> get_varint64(CodecInput)]
    /\ UNCHANGED <<endian, debug_build, dst, enc>>
    /\ UNCHANGED notCodec

CodecDecodeFixed32 ==
    /\ dec.op = "none"
    /\ dec' = [op |-> "decode_fixed32", res |-> decode_fixed32(CodecInput, endian)]
    /\ UNCHANGED <<endian, debug_build, dst, enc>>
    /\ UNCHANGED notCodec

CodecDecodeFixed64 ==
    /\ dec.op = "none"
    /\ dec' = [op |-> "decode_fixed64", res |-> decode_fixed64(CodecInput, endian)]
    /\ UNCHANGED <<endian, debug_build, dst, enc>>
    /\ UNCHANGED notCodec

\* BlockHandle::encode_to on the buffer
CodecEncodeHandle(h) ==
    /\ enc.op = "none"
    /\ dec.op = "none"
    /\ LET r == BlockHandle_encode_to(h, dst)
       IN  /\ r.tag = "Ok"
           /\ dst' = r.slice
           /\ enc' = [op |-> "BlockHandle::encode_to", v |-> h, start |-> Len(dst),
                      written |-> Len(r.slice) - Len(dst)]
    /\ UNCHANGED <<endian, debug_build, dec>>
    /\ UNCHANGED notCodec

\* BlockHandle::decode_from on a new handle; the value of an Ok result is
\* the handle afterwards
CodecDecodeHandle ==
    /\ dec.op = "none"
    /\ LET r == BlockHandle_decode_from(BlockHandle_new, CodecInput)
       IN  dec' = [op |-> "BlockHandle::decode_from",
                   res |-> IF r.res.tag = "Ok" THEN Ok(r.res.slice, r.handle)
                           ELSE r.res]
    /\ UNCHANGED <<endian, debug_build, dst, enc>>
    /\ UNCHANGED notCodec

\* a new buffer
CodecClear ==
    /\ dec.op # "none"
    /\ dst' = <<>>
    /\ enc' = NoCall
    /\ dec' = NoResult
    /\ UNCHANGED <<endian, debug_build>>
    /\ UNCHANGED notCodec

NextCodec ==
    \/ \E b \in (IF enc.op = "none" THEN PrefixBytes ELSE RawBytes) : CodecPush(b)
    \/ \E v \in U32Samples : CodecPutVarint32(v)
    \/ \E v \in U64Samples : CodecPutVarint64(v)
    \/ \E v \in U32Samples : CodecPutFixed32(v)
    \/ \E v \in U64Samples : CodecPutFixed64(v)
    \/ CodecGetVarint32
    \/ CodecGetVarint64
    \/ CodecDecodeFixed32
    \/ CodecDecodeFixed64
    \/ \E h \in HandleSamples : CodecEncodeHandle(h)
    \/ CodecDecodeHandle
    \/ CodecClear

CodecSpec == InitCodec /\ [][NextCodec]_vars

---------------------------------------------------------------------------
(* The footer: handles are set, the footer is encoded into a buffer, the   *)
(* bytes may be damaged, and a second footer decodes them.                 *)

\* edits of the encoded bytes before they are decoded
MaxEdits == 2

\* bytes the handle region is overwritten with
FillBytes == {0, 128}

InitFooter ==
    /\ endian \in {"Little", "Big"}
    /\ debug_build = FALSE
    /\ dst = <<>>
    /\ enc = NoCall
    /\ dec = NoResult
    /\ footer = Footer_new
    /\ receiver = Footer_new
    /\ fbuf = <<>>
    /\ fenc = NoEncode
    /\ fdec = NoDecode
    /\ block_restart_interval = 1
    /\ builder = BlockBuilder_new
    /\ bcalls = NoCalls
    /\ block = <<>>
    /\ iter = NoIter
    /\ scan = NoScan
    /\ table = NoOpen
    /\ readers = NoReaders
    /\ ecall = NoEntry

FooterSetMetaindexHandle(h) ==
    /\ fenc.op = "none"
    /\ footer' = [footer EXCEPT !.metaindex_handle = h]
    /\ UNCHANGED <<endian, debug_build, receiver, fbuf, fenc, fdec>>
    /\ UNCHANGED notFooter

FooterSetIndexHandle(h) ==
    /\ fenc.op = "none"
    /\ footer' = [footer EXCEPT !.index_handle = h]
    /\ UNCHANGED <<endian, debug_build, receiver, fbuf, fenc, fdec>>
    /\ UNCHANGED notFooter

\* a byte that is in dst before encode_to is called
FooterPrefix(b) ==
    /\ fenc.op = "none"
    /\ Len(fbuf) < MaxPrefix
    /\ fbuf' = Append(fbuf, b)
    /\ UNCHANGED <<endian, debug_build, footer, receiver, fenc, fdec>>
    /\ UNCHANGED notFooter

FooterEncode ==
    /\ fenc.op = "none"
    /\ LET r == Footer_encode_to(footer, fbuf, endian)
       IN  /\ fenc' = [op |-> "encode_to", tag |-> r.tag, original_size |-> Len(fbuf),
                       edits |-> 0]
           /\ fbuf' = IF r.tag = "Ok" THEN r.slice ELSE fbuf
    /\ UNCHANGED <<endian, debug_build, footer, receiver, fdec>>
    /\ UNCHANGED notFooter

\* the slice decode_from is handed: what encode_to appended
FooterInput == SliceFrom(fbuf, fenc.original_size)

\* one byte of the magic number is inverted
FooterFlipMagic(i) ==
    /\ fenc.op = "encode_to" /\ fenc.tag = "Ok"
    /\ fdec.op = "none"
    /\ fenc.edits < MaxEdits
    /\ LET at == fenc.original_size + (ENCODED_LENGTH - 8) + i + 1
       IN  fbuf' = [fbuf EXCEPT ![at] = 255 - fbuf[at]]
    /\ fenc' = [fenc EXCEPT !.edits = fenc.edits + 1]
    /\ UNCHANGED <<endian, debug_build, footer, receiver, fdec>>
    /\ UNCHANGED notFooter

\* the handle region is overwritten
FooterFillHandles(b) ==
    /\ fenc.op = "encode_to" /\ fenc.tag = "Ok"
    /\ fdec.op = "none"
    /\ fenc.edits < MaxEdits
    /\ fbuf' = [k \in 1..Len(fbuf) |->
                  IF k > fenc.original_size
                     /\ k <= fenc.original_size + 2 * MAX_ENCODED_LENGTH
                  THEN b ELSE fbuf[k]]
    /\ fenc' = [fenc EXCEPT !.edits = fenc.edits + 1]
    /\ UNCHANGED <<endian, debug_build, footer, receiver, fdec>>
    /\ UNCHANGED notFooter

\* the first byte of the handle region is overwritten with a one-byte varint
FooterFirstByte(b) ==
    /\ fenc.op = "encode_to" /\ fenc.tag = "Ok"
    /\ fdec.op = "none"
    /\ fenc.edits < MaxEdits
    /\ fbuf' = [fbuf EXCEPT ![fenc.original_size + 1] = b]
    /\ fenc' = [fenc EXCEPT !.edits = fenc.edits + 1]
    /\ UNCHANGED <<endian, debug_build, footer, receiver, fdec>>
    /\ UNCHANGED notFooter

\* the handles the receiving footer holds before it decodes
FooterSetReceiver(h) ==
    /\ fdec.op = "none"
    /\ receiver = Footer_new
    /\ receiver' = [metaindex_handle |-> h, index_handle |-> h]
    /\ UNCHANGED <<endian, debug_build, footer, fbuf, fenc, fdec>>
    /\ UNCHANGED notFooter

FooterDecode ==
    /\ fenc.op = "encode_to" /\ fenc.tag = "Ok"
    /\ fdec.op = "none"
    /\ LET r == Footer_decode_from(receiver, FooterInput, endian)
       IN  /\ fdec' = [op |-> "decode_from", res |-> r.res, before |-> receiver]
           /\ receiver' = r.footer
    /\ UNCHANGED <<endian, debug_build, footer, fbuf, fenc>>
    /\ UNCHANGED notFooter

FooterClear ==
    /\ fenc.op # "none"
    /\ fenc.tag = "Panic" \/ fdec.op # "none"
    /\ footer' = Footer_new
    /\ receiver' = Footer_new
    /\ fbuf' = <<>>
    /\ fenc' = NoEncode
    /\ fdec' = NoDecode
    /\ UNCHANGED <<endian, debug_build>>
    /\ UNCHANGED notFooter

NextFooter ==
    \/ \E h \in HandleSamples : FooterSetMetaindexHandle(h)
    \/ \E h \in HandleSamples : FooterSetIndexHandle(h)
    \/ \E b \in PrefixBytes : FooterPrefix(b)
    \/ FooterEncode
    \/ \E i \in 0..7 : FooterFlipMagic(i)
    \/ \E b \in FillBytes : FooterFillHandles(b)
    \/ \E b \in {1} : FooterFirstByte(b)
    \/ \E h \in {[offset |-> Pow2Bits(1, W64), size |-> Pow2Bits(2, W64)]} :
          FooterSetReceiver(h)
    \/ FooterDecode
    \/ FooterClear

FooterSpec == InitFooter /\ [][NextFooter]_vars

---------------------------------------------------------------------------
(* A block: entries are added to a builder, the builder is finished, and   *)
(* an iterator is opened on a block made of the finished bytes.            *)

\* entries added to one block
MaxEntries == 3
\* the largest restart interval
MaxInterval == 2
\* calls of finish() on one builder
MaxFinish == 2
\* entries an iterator is stepped over after it was positioned
MaxScan == 4
\* bytes cut off the entry region of a truncated block
MaxCut == 4

\* "a", "aa", "aab", "ab", "b"
KeySamples == {<<97>>, <<97, 97>>, <<97, 97, 98>>, <<97, 98>>, <<98>>}

\* "", "12"
ValueSamples == {<<>>, <<49, 50>>}

\* "", "a", "aa", "aab", "ab", "b", "z"
TargetSamples == KeySamples \cup {<<>>, <<122>>}

\* block contents, each in either byte order.  One restart point at offset
\* 0: an entry at offset 0 with a two-byte key, followed at offset 2 by a
\* header that announces a 50-byte key.  Two restart points at offsets 0 and
\* 4: the entry ("a", "") followed by an entry with shared = 1, and the same
\* entry followed by a header whose first varint runs over three bytes.
RawBlockSamples ==
    {<<0, 2, 0, 50, 0, 0>> \o <<0, 0, 0, 0>> \o <<1, 0, 0, 0>>,
     <<0, 2, 0, 50, 0, 0>> \o <<0, 0, 0, 0>> \o <<0, 0, 0, 1>>,
     <<0, 1, 0, 97, 1, 1, 0, 98>> \o <<0, 0, 0, 0>> \o <<4, 0, 0, 0>> \o <<2, 0, 0, 0>>,
     <<0, 1, 0, 97, 1, 1, 0, 98>> \o <<0, 0, 0, 0>> \o <<0, 0, 0, 4>> \o <<0, 0, 0, 2>>,
     <<0, 1, 0, 97, 128, 0, 0, 0, 0, 0, 0, 0, 200>>
        \o <<0, 0, 0, 0>> \o <<4, 0, 0, 0>> \o <<2, 0, 0, 0>>,
     <<0, 1, 0, 97, 128, 0, 0, 0, 0, 0, 0, 0, 200>>
        \o <<0, 0, 0, 0>> \o <<0, 0, 0, 4>> \o <<0, 0, 0, 2>>}

InitBlock ==
    /\ endian \in {"Little", "Big"}
    /\ debug_build \in BOOLEAN
    /\ dst = <<>>
    /\ enc = NoCall
    /\ dec = NoResult
    /\ footer = Footer_new
    /\ receiver = Footer_new
    /\ fbuf = <<>>
    /\ fenc = NoEncode
    /\ fdec = NoDecode
    /\ block_restart_interval \in 1..MaxInterval
    /\ builder = BlockBuilder_new
    /\ bcalls = NoCalls
    /\ block = <<>>
    /\ iter = NoIter
    /\ scan = NoScan
    /\ table = NoOpen
    /\ readers = NoReaders
    /\ ecall = NoEntry

BuilderAdd(key, value) ==
    /\ bcalls.out = "ok"
    /\ iter.out = "none"
    /\ Len(bcalls.added) < MaxEntries
    /\ LET r == BlockBuilder_add(builder, block_restart_interval, key, value, endian)
       IN  /\ builder' = r.b
           /\ bcalls' = [bcalls EXCEPT
                  !.out = r.out,
                  !.call = [op |-> "add", key |-> key, value |-> value],
                  !.before = Len(builder.buffer),
                  !.added = IF r.out = "ok"
                            THEN Append(bcalls.added,
                                        [key |-> key, value |-> value,
                                         offset |-> Len(builder.buffer),
                                         end |-> Len(r.b.buffer)])
                            ELSE bcalls.added]
    /\ UNCHANGED <<endian, debug_build, block_restart_interval, block, iter, scan>>
    /\ UNCHANGED notBlock

BuilderFinish ==
    /\ bcalls.out = "ok"
    /\ iter.out = "none"
    /\ bcalls.finishes < MaxFinish
    /\ builder' = BlockBuilder_finish(builder, endian)
    /\ bcalls' = [bcalls EXCEPT
           !.finishes = bcalls.finishes + 1,
           !.finish_at = Len(builder.buffer),
           !.call = [op |-> "finish", key |-> <<>>, value |-> <<>>],
           !.before = Len(builder.buffer),
           !.estimate = BlockBuilder_current_size_estimate(builder)]
    /\ UNCHANGED <<endian, debug_build, block_restart_interval, block, iter, scan>>
    /\ UNCHANGED notBlock

BuilderReset ==
    /\ bcalls.out = "ok"
    /\ iter.out = "none"
    /\ builder' = BlockBuilder_reset(builder)
    /\ bcalls' = [NoCalls EXCEPT
           !.call = [op |-> "reset", key |-> <<>>, value |-> <<>>],
           !.before = Len(builder.buffer)]
    /\ UNCHANGED <<endian, debug_build, block_restart_interval, block, iter, scan>>
    /\ UNCHANGED notBlock

\* the builder on its own
NextBuilder ==
    \/ \E key \in KeySamples, value \in ValueSamples : BuilderAdd(key, value)
    \/ BuilderFinish
    \/ BuilderReset

BuilderSpec == InitBlock /\ [][NextBuilder]_vars

\* what the iterator shows where it stands: nothing when it is not valid
Shown(i, data) ==
    IF i.out = "ok" /\ is_valid(i)
    THEN <<[key |-> i.key, value |-> value_bytes(i, data)]>>
    ELSE <<>>

IterOpen ==
    /\ bcalls.out = "ok"
    /\ builder.finished
    /\ iter.out = "none"
    /\ block' = builder.buffer
    /\ iter' = Block_iter(builder.buffer, endian)
    /\ scan' = NoScan
    /\ UNCHANGED <<endian, debug_build, block_restart_interval, builder, bcalls>>
    /\ UNCHANGED notBlock

\* the bytes of a block finished once are cut before the restart array, cut
\* bytes into the entry region, and an iterator is opened on what is left
IterOpenTruncated(cut) ==
    /\ bcalls.out = "ok"
    /\ bcalls.finishes = 1
    /\ iter.out = "none"
    /\ cut <= bcalls.finish_at
    /\ block' = SubSeq(builder.buffer, 1, bcalls.finish_at - cut)
    /\ iter' = Block_iter(block', endian)
    /\ scan' = NoScan
    /\ UNCHANGED <<endian, debug_build, block_restart_interval, builder, bcalls>>
    /\ UNCHANGED notBlock

\* an iterator is opened on block contents that no builder of this process
\* made, as read from a file
IterOpenRaw(contents) ==
    /\ bcalls.call.op = "none"
    /\ ~builder.finished
    /\ iter.out = "none"
    /\ block' = contents
    /\ iter' = Block_iter(contents, endian)
    /\ scan' = NoScan
    /\ UNCHANGED <<endian, debug_build, block_restart_interval, builder, bcalls>>
    /\ UNCHANGED notBlock

IterSeekToFirst ==
    /\ iter.out = "ok"
    /\ iter' = BlockIterator_seek_to_first(iter, block, endian, debug_build)
    /\ scan' = [from |-> "seek_to_first", last |-> "seek_to_first", target |-> <<>>,
                seen |-> Shown(iter', block)]
    /\ UNCHANGED <<endian, debug_build, block_restart_interval, builder, bcalls, block>>
    /\ UNCHANGED notBlock

IterSeekToLast ==
    /\ iter.out = "ok"
    /\ iter' = BlockIterator_seek_to_last(iter, block, endian, debug_build)
    /\ scan' = [from |-> "seek_to_last", last |-> "seek_to_last", target |-> <<>>,
                seen |-> Shown(iter', block)]
    /\ UNCHANGED <<endian, debug_build, block_restart_interval, builder, bcalls, block>>
    /\ UNCHANGED notBlock

IterSeek(target) ==
    /\ iter.out = "ok"
    /\ iter' = BlockIterator_seek(iter, block, target, endian, debug_build)
    /\ scan' = [from |-> "seek", last |-> "seek", target |-> target,
                seen |-> Shown(iter', block)]
    /\ UNCHANGED <<endian, debug_build, block_restart_interval, builder, bcalls, block>>
    /\ UNCHANGED notBlock

IterStep ==
    /\ iter.out = "ok"
    /\ Len(scan.seen) < MaxScan
    /\ iter' = BlockIterator_step(iter, block, endian, debug_build)
    /\ scan' = [scan EXCEPT !.last = "step", !.seen = scan.seen \o Shown(iter', block)]
    /\ UNCHANGED <<endian, debug_build, block_restart_interval, builder, bcalls, block>>
    /\ UNCHANGED notBlock

IterPrev ==
    /\ iter.out = "ok"
    /\ iter' = BlockIterator_prev(iter, block, endian)
    /\ scan' = [from |-> "prev", last |-> "prev", target |-> <<>>,
                seen |-> Shown(iter', block)]
    /\ UNCHANGED <<endian, debug_build, block_restart_interval, builder, bcalls, block>>
    /\ UNCHANGED notBlock

\* the iterator and its block are dropped
IterDrop ==
    /\ iter.out # "none"
    /\ block' = <<>>
    /\ iter' = NoIter
    /\ scan' = NoScan
    /\ UNCHANGED <<endian, debug_build, block_restart_interval, builder, bcalls>>
    /\ UNCHANGED notBlock

NextBlock ==
    \/ \E key \in KeySamples, value \in ValueSamples : BuilderAdd(key, value)
    \/ BuilderFinish
    \/ BuilderReset
    \/ IterOpen
    \/ \E cut \in 1..MaxCut : IterOpenTruncated(cut)
    \/ \E contents \in RawBlockSamples : IterOpenRaw(contents)
    \/ IterSeekToFirst
    \/ IterSeekToLast
    \/ \E target \in TargetSamples : IterSeek(target)
    \/ IterStep
    \/ IterPrev
    \/ IterDrop

BlockSpec == InitBlock /\ [][NextBlock]_vars

---------------------------------------------------------------------------
(* Two iterators over one finished block, called in any order.             *)

\* ("a", "12"), ("aa", ""), ("b", "12")
ReaderEntries ==
    <<[key |-> <<97>>, value |-> <<49, 50>>],
      [key |-> <<97, 97>>, value |-> <<>>],
      [key |-> <<98>>, value |-> <<49, 50>>]>>

\* the builder after add() of the entries i..n
RECURSIVE add_entries(_, _, _, _, _)
add_entries(b, i, n, interval, e) ==
    IF i > n THEN b
    ELSE add_entries(BlockBuilder_add(b, interval, ReaderEntries[i].key,
                                      ReaderEntries[i].value, e).b,
                     i + 1, n, interval, e)

\* the bytes finish() returns for the first n entries
FinishedBlock(n, interval, e) ==
    BlockBuilder_finish(add_entries(BlockBuilder_new, 1, n, interval, e), e).buffer

\* "", "aa", "z"
ReaderTargets == {<<>>, <<97, 97>>, <<122>>}

ReaderOps == {"seek_to_first", "seek_to_last", "seek", "step", "prev", "key", "value"}

\* the iterator after the call op
ReaderCalled(it, op, target, data, e, checks) ==
    CASE op = "seek_to_first" -> BlockIterator_seek_to_first(it, data, e, checks)
      [] op = "seek_to_last" -> BlockIterator_seek_to_last(it, data, e, checks)
      [] op = "seek" -> BlockIterator_seek(it, data, target, e, checks)
      [] op = "step" -> BlockIterator_step(it, data, e, checks)
      [] op = "prev" -> BlockIterator_prev(it, data, e)
      [] op = "key" -> IF BlockIterator_key(it).tag = "Ok" THEN it ELSE Aborted(it)
      [] op = "value" -> IF BlockIterator_value(it, data).tag = "Ok" THEN it
                         ELSE Aborted(it)

\* what the call op returns
ReaderReturned(it, op, after, data) ==
    CASE op = "key" -> BlockIterator_key(it)
      [] op = "value" -> BlockIterator_value(it, data)
      [] OTHER -> IF after.out = "ok" THEN Ok(<<>>, <<>>) ELSE Panic

\* a block of n entries is finished and two iterators are made over it
ReadersOpen(n) ==
    /\ ~readers.open
    /\ block' = FinishedBlock(n, block_restart_interval, endian)
    /\ readers' = [NoReaders EXCEPT
           !.open = TRUE,
           !.contents = block',
           !.its = <<Block_iter(block', endian), Block_iter(block', endian)>>,
           !.alone = <<Block_iter(block', endian), Block_iter(block', endian)>>]
    /\ UNCHANGED <<endian, debug_build, block_restart_interval>>
    /\ UNCHANGED notReaders

\* the r-th iterator is called; alone[r] is the same iterator called on a
\* block that has no other iterator
ReaderDone(r, op, after, after_alone) ==
    [readers EXCEPT
        !.its = write_self(readers.its, r, after),
        !.alone[r] = after_alone,
        !.sought[r] = readers.sought[r] \/ op \in {"seek_to_first", "seek_to_last", "seek"},
        !.last = [r |-> r, op |-> op, was_valid |-> is_valid(readers.its[r]),
                  ret |-> ReaderReturned(readers.its[r], op, after, block),
                  before |-> readers.its[r]]]

ReaderCall(r, op, target) ==
    /\ readers.open
    /\ readers.its[r].out = "ok"
    /\ op = "seek" \/ target = <<>>
    /\ readers' = ReaderDone(r, op,
                      ReaderCalled(readers.its[r], op, target, block, endian, debug_build),
                      ReaderCalled(readers.alone[r], op, target, readers.contents,
                                   endian, debug_build))
    /\ UNCHANGED <<endian, debug_build, block_restart_interval, block>>
    /\ UNCHANGED notReaders

\* the iterators and the block are dropped
ReadersDrop ==
    /\ readers.open
    /\ block' = <<>>
    /\ readers' = NoReaders
    /\ UNCHANGED <<endian, debug_build, block_restart_interval>>
    /\ UNCHANGED notReaders

NextReaders ==
    \/ \E n \in 0..Len(ReaderEntries) : ReadersOpen(n)
    \/ \E r \in 1..2, op \in ReaderOps, target \in ReaderTargets : ReaderCall(r, op, target)
    \/ ReadersDrop

ReadersSpec == InitBlock /\ [][NextReaders]_vars

---------------------------------------------------------------------------
(* decode_entry on its own: it is handed a slice.                          *)

\* the longest slice
MaxSlice == 4

\* bytes of a slice: small lengths, "a", and bytes with the top bit set
EntryBytes == {0, 1, 2, 97, 128, 200}

InitEntry ==
    /\ endian \in {"Little", "Big"}
    /\ debug_build \in BOOLEAN
    /\ dst = <<>>
    /\ enc = NoCall
    /\ dec = NoResult
    /\ footer = Footer_new
    /\ receiver = Footer_new
    /\ fbuf = <<>>
    /\ fenc = NoEncode
    /\ fdec = NoDecode
    /\ block_restart_interval = 1
    /\ builder = BlockBuilder_new
    /\ bcalls = NoCalls
    /\ block = <<>>
    /\ iter = NoIter
    /\ scan = NoScan
    /\ table = NoOpen
    /\ readers = NoReaders
    /\ ecall = NoEntry

\* a byte is appended to the slice
EntryPush(b) ==
    /\ ecall.op = "none"
    /\ Len(ecall.p) < MaxSlice
    /\ ecall' = [ecall EXCEPT !.p = Append(ecall.p, b)]
    /\ UNCHANGED <<endian, debug_build>>
    /\ UNCHANGED notEntry

EntryDecode ==
    /\ ecall.op = "none"
    /\ ecall' = [op |-> "decode_entry", p |-> ecall.p,
                 res |-> decode_entry(ecall.p, debug_build)]
    /\ UNCHANGED <<endian, debug_build>>
    /\ UNCHANGED notEntry

\* a new slice
EntryClear ==
    /\ ecall.op # "none"
    /\ ecall' = NoEntry
    /\ UNCHANGED <<endian, debug_build>>
    /\ UNCHANGED notEntry

NextEntry ==
    \/ \E b \in EntryBytes : EntryPush(b)
    \/ EntryDecode
    \/ EntryClear

EntrySpec == InitEntry /\ [][NextEntry]_vars

---------------------------------------------------------------------------
(* A table file is opened.                                                 *)

\* bytes of a file in front of its footer
MaxFileBody == 2

\* the first handle of a footer, as varints: the offset 2^63 and the size 3
FarHandles == <<128, 128, 128, 128, 128, 128, 128, 128, 128, 1>> \o <<3>>

\* a file's last bytes: nothing, ten zero bytes, the footer of two zero
\* handles, the footer of FarHandles, and a footer with a wrong magic number
TailKinds == {"none", "short", "footer", "far", "zeros"}

FileTail(kind, e) ==
    CASE kind = "none" -> <<>>
      [] kind = "short" -> [i \in 1..10 |-> 0]
      [] kind = "footer" -> Footer_encode_to(Footer_new, <<>>, e).slice
      [] kind = "far" ->
            [i \in 1..ENCODED_LENGTH |->
                IF i <= Len(FarHandles) THEN FarHandles[i]
                ELSE Footer_encode_to(Footer_new, <<>>, e).slice[i]]
      [] kind = "zeros" -> [i \in 1..ENCODED_LENGTH |-> 0]

\* the size the caller passes to open; it need not be the file's length
SizeSamples == {0, ENCODED_LENGTH - 1, ENCODED_LENGTH, ENCODED_LENGTH + 1}

InitTable ==
    /\ endian \in {"Little", "Big"}
    /\ debug_build \in BOOLEAN
    /\ dst = <<>>
    /\ enc = NoCall
    /\ dec = NoResult
    /\ footer = Footer_new
    /\ receiver = Footer_new
    /\ fbuf = <<>>
    /\ fenc = NoEncode
    /\ fdec = NoDecode
    /\ block_restart_interval = 1
    /\ builder = BlockBuilder_new
    /\ bcalls = NoCalls
    /\ block = <<>>
    /\ iter = NoIter
    /\ scan = NoScan
    /\ table = NoOpen
    /\ readers = NoReaders
    /\ ecall = NoEntry

\* the bytes in front of the footer are all 1 or all 7
BodyBytes == {1, 7}

\* a file is opened; verify_checksums is what the index-block read is issued
\* with
TableOpen(body, fill, kind, size, paranoid_checks, fresh) ==
    /\ table.op = "none"
    /\ table' = [op |-> "open", file |-> [i \in 1..body |-> fill] \o FileTail(kind, endian), size |-> size,
                 res |-> Table_open([i \in 1..body |-> fill] \o FileTail(kind, endian), size, endian).res,
                 log |-> Table_open([i \in 1..body |-> fill] \o FileTail(kind, endian), size, endian).log,
                 made |-> Table_open([i \in 1..body |-> fill] \o FileTail(kind, endian), size, endian).made,
                 paranoid_checks |-> paranoid_checks,
                 verify_checksums |->
                     index_read_options(paranoid_checks, ReadOptions_new(fresh)).verify_checksums]
    /\ UNCHANGED <<endian, debug_build>>
    /\ UNCHANGED notTable

\* the result of open is dropped
TableDrop ==
    /\ table.op = "open"
    /\ table' = NoOpen
    /\ UNCHANGED <<endian, debug_build>>
    /\ UNCHANGED notTable

NextTable ==
    \/ \E body \in 0..MaxFileBody, fill \in BodyBytes, kind \in TailKinds, size \in SizeSamples,
          paranoid_checks \in BOOLEAN, fresh \in BOOLEAN :
          TableOpen(body, fill, kind, size, paranoid_checks, fresh)
    \/ TableDrop

TableSpec == InitTable /\ [][NextTable]_vars

---------------------------------------------------------------------------
(* Claims about the codec, checked under CodecSpec *)

\* what follows the appended value in the buffer
CodecTrailing == SliceFrom(dst, enc.start + enc.written)

\* the bytes the put_* call appended
CodecAppended == SliceRange(dst, enc.start, enc.start + enc.written)

\* C4: get_varint64 on the bytes appended by put_varint64(v) returns v, and
\* the remaining slice is exactly the bytes that followed the encoding.
C4_Varint64RoundTrip ==
    (enc.op = "put_varint64" /\ dec.op = "get_varint64") =>
        /\ dec.res.tag = "Ok"
        /\ dec.res.value = enc.v
        /\ dec.res.slice = CodecTrailing

\* C5: get_varint32_ptr_fallback on the bytes appended by put_varint32(v)
\* returns v and a remaining slice that starts right after the encoding.
C5_Varint32RoundTrip ==
    (enc.op = "put_varint32" /\ dec.op = "get_varint32_ptr_fallback") =>
        /\ dec.res.tag = "Ok"
        /\ FromNat(dec.res.value, W32) = enc.v
        /\ dec.res.slice = CodecTrailing

\* C6: put_varint32 and put_varint64 append exactly the minimal number of
\* 7-bit groups of v, report that number, and set 0x80 on every appended
\* byte except the last.
C6_VarintShape ==
    enc.op \in {"put_varint32", "put_varint64"} =>
        /\ enc.written = Groups7(enc.v)
        /\ enc.start + enc.written <= Len(dst)
        /\ enc.written <= (IF enc.op = "put_varint32" THEN 5 ELSE 10)
        /\ \A i \in 1..enc.written :
              (CodecAppended[i] >= 128) <=> (i < enc.written)

\* C7: decode_fixed32 on the 4 bytes appended by put_fixed32(v) returns v,
\* on a little-endian and on a big-endian target.
C7_Fixed32RoundTrip ==
    (enc.op = "put_fixed32" /\ dec.op = "decode_fixed32") =>
        /\ enc.written = 4
        /\ dec.res.tag = "Ok"
        /\ dec.res.value = enc.v

C7_Witness ==
    /\ enc.op = "put_fixed32"
    /\ dec.op = "decode_fixed32"
    /\ endian = "Big"
    /\ enc.v = Pow2Bits(0, W32)
    /\ CodecAppended = <<0, 0, 0, 1>>
    /\ dec.res.tag = "Ok"

\* C8: decode_fixed64 on the 8 bytes appended by put_fixed64(v) returns v
\* and does not abort.
C8_Fixed64RoundTrip ==
    (enc.op = "put_fixed64" /\ dec.op = "decode_fixed64") =>
        /\ enc.written = 8
        /\ dec.res.tag = "Ok"
        /\ dec.res.value = enc.v

---------------------------------------------------------------------------
(* Claims about the footer, checked under FooterSpec *)

\* the 8 bytes that encode the magic number on this target
MagicBytes ==
    put_fixed32(put_fixed32(<<>>, AsU32(TABLE_MAGIC_NUMBER), endian),
                AsU32(Shr(TABLE_MAGIC_NUMBER, 32)), endian)

FooterMagicIsBad ==
    /\ Len(FooterInput) = ENCODED_LENGTH
    /\ SliceFrom(FooterInput, ENCODED_LENGTH - 8) # MagicBytes

\* C9: Footer.decode_from on a footer-length buffer whose last 8 bytes do not
\* encode the magic constant returns a Corruption error whatever the handle
\* bytes are, and no handle has been decoded into the footer by then.
C9_MagicFailFast ==
    (fdec.op = "decode_from" /\ FooterMagicIsBad) =>
        /\ fdec.res = Err("Corruption")
        /\ receiver = fdec.before

C9_Witness ==
    /\ fdec.op = "decode_from"
    /\ FooterMagicIsBad
    /\ \A k \in 1..(2 * MAX_ENCODED_LENGTH) : FooterInput[k] = 128
    /\ fdec.before # Footer_new
    /\ fdec.res = Err("Corruption")

\* C10: Footer.decode_from applied to the bytes produced by Footer.encode_to
\* succeeds and recovers metaindex_handle and index_handle as encoded.
C10_FooterRoundTrip ==
    (fdec.op = "decode_from" /\ fenc.tag = "Ok" /\ fenc.edits = 0) =>
        /\ fdec.res.tag = "Ok"
        /\ receiver.metaindex_handle = footer.metaindex_handle
        /\ receiver.index_handle = footer.index_handle

\* C11: Footer.encode_to with set handles appends exactly ENCODED_LENGTH
\* bytes to a destination of any prior length, so its closing assertion does
\* not fail, and the last 8 bytes are the magic constant, low word first.
C11_FooterFixedSize ==
    (/\ fenc.op = "encode_to" /\ fenc.edits = 0
     /\ AllOnes(W64) \notin {footer.metaindex_handle.offset, footer.metaindex_handle.size,
                             footer.index_handle.offset, footer.index_handle.size}) =>
        /\ fenc.tag = "Ok"
        /\ Len(fbuf) = fenc.original_size + ENCODED_LENGTH
        /\ SliceFrom(fbuf, Len(fbuf) - 8) = MagicBytes

\* the first handle of the input ends inside its second varint
FooterSizeIsCut ==
    /\ get_varint64(FooterInput).tag = "Ok"
    /\ get_varint64(get_varint64(FooterInput).slice).tag # "Ok"

\* C33: when BlockHandle.decode_from returns an error, because either varint
\* cannot be parsed, the handle's offset and size are what they were before
\* the call; when Footer.decode_from returns an error, because the magic
\* number is wrong or a handle cannot be parsed, both handles of the footer
\* are what they were before the call.
C33_FailedDecodeFrame ==
    fdec.op = "decode_from" =>
        /\ (~FooterMagicIsBad /\ (get_varint64(FooterInput).tag # "Ok" \/ FooterSizeIsCut)) =>
              /\ fdec.res.tag = "Err"
              /\ receiver.metaindex_handle.offset = fdec.before.metaindex_handle.offset
              /\ receiver.metaindex_handle.size = fdec.before.metaindex_handle.size
        /\ fdec.res.tag = "Err" =>
              /\ receiver.metaindex_handle = fdec.before.metaindex_handle
              /\ receiver.index_handle = fdec.before.index_handle

\* decode_from failed on a right magic number where the offset of the first
\* handle could be parsed and its size could not, and the receiver held
\* another offset than the parsed one
C33_Witness ==
    /\ fdec.op = "decode_from"
    /\ ~FooterMagicIsBad
    /\ FooterSizeIsCut
    /\ fdec.res.tag = "Err"
    /\ fdec.before # Footer_new
    /\ get_varint64(FooterInput).value # fdec.before.metaindex_handle.offset

\* C12: BlockHandle.decode_from on the bytes written by encode_to, followed
\* by any trailing bytes, recovers offset and size, returns the trailing
\* bytes as the remaining slice, and the encoding is at most 20 bytes long.
C12_HandleRoundTrip ==
    (enc.op = "BlockHandle::encode_to" /\ dec.op = "BlockHandle::decode_from") =>
        /\ enc.written <= MAX_ENCODED_LENGTH
        /\ dec.res.tag = "Ok"
        /\ dec.res.value = enc.v
        /\ dec.res.slice = CodecTrailing

---------------------------------------------------------------------------
(* Blocks *)

\* the entry a reader of the block is to be shown for the i-th add
Stored(i) ==
    [key |-> bcalls.added[i].key,
     value |-> [tag |-> "Ok", bytes |-> bcalls.added[i].value]]

\* the adds whose key is not below the target of the last seek
NotBelow == {i \in 1..Len(bcalls.added) : Compare(bcalls.added[i].key, scan.target) >= 0}

\* the adds that fall on a restart: number 0, N, 2N, ... counted from 0
OnRestart == {i \in 1..Len(bcalls.added) : (i - 1) % block_restart_interval = 0}

\* the shared field in front of the i-th entry in the buffer, as a result
SharedField(i) == decode_fixed32(SliceFrom(builder.buffer, bcalls.added[i].offset), endian)

\* the k-th fixed32 (from 0) that the last finish() wrote, as a result
TrailerField(k) == decode_fixed32(SliceFrom(builder.buffer, bcalls.finish_at + 4 * k), endian)

\* C1: entries added with increasing keys, then finish(), then seek_to_first()
\* and step() while the iterator is valid, show the added (key, value) pairs
\* in order with their full keys, all of them once the iterator is no longer
\* valid, and the status is Ok.
C1_BlockRoundTrip ==
    (bcalls.out = "ok" /\ bcalls.finishes = 1 /\ block = builder.buffer
     /\ scan.from = "seek_to_first") =>
        /\ iter.out = "ok"
        /\ iter.status = "Ok"
        /\ Len(scan.seen) <= Len(bcalls.added)
        /\ \A i \in 1..Len(scan.seen) :
              i <= Len(bcalls.added) => scan.seen[i] = Stored(i)
        /\ ~is_valid(iter) => Len(scan.seen) = Len(bcalls.added)

\* C2: on a block built from increasing keys, seek(k) returns with the
\* iterator valid on the smallest stored key >= k and its value, or not valid
\* when every stored key is below k.
C2_SeekCorrect ==
    (bcalls.out = "ok" /\ bcalls.finishes = 1 /\ block = builder.buffer
     /\ scan.last = "seek") =>
        /\ iter.out = "ok"
        /\ IF NotBelow = {}
           THEN ~is_valid(iter)
           ELSE /\ is_valid(iter)
                /\ scan.seen = <<Stored(CHOOSE i \in NotBelow :
                                            \A j \in NotBelow : i <= j)>>

\* C3: with block_restart_interval = N the restart list holds the buffer
\* offsets of entries number 0, N, 2N, ... and of no other entry, those
\* entries are written with shared = 0 while every other entry is written with
\* the length of the prefix it shares with the key before it, and finish()
\* appends the restart list followed by its length as fixed32 values.
C3_RestartBoundary ==
    bcalls.out = "ok" =>
        /\ builder.counter <= block_restart_interval
        /\ IF bcalls.added = <<>>
           THEN builder.restarts = <<0>>
           ELSE builder.restarts =
                   [j \in 1..((Len(bcalls.added) - 1) \div block_restart_interval + 1) |->
                       bcalls.added[(j - 1) * block_restart_interval + 1].offset]
        /\ \A i \in 1..Len(bcalls.added) :
              /\ SharedField(i).tag = "Ok"
              /\ SharedField(i).value =
                    U32(IF i \in OnRestart THEN 0
                        ELSE shared_loop(bcalls.added[i - 1].key, bcalls.added[i].key, 0,
                                         Min(Len(bcalls.added[i - 1].key),
                                             Len(bcalls.added[i].key))))
        /\ bcalls.finishes > 0 =>
              /\ Len(builder.buffer) = bcalls.finish_at + 4 * (Len(builder.restarts) + 1)
              /\ \A k \in 0..(Len(builder.restarts) - 1) :
                    /\ TrailerField(k).tag = "Ok"
                    /\ TrailerField(k).value = U32(builder.restarts[k + 1])
              /\ TrailerField(Len(builder.restarts)).tag = "Ok"
              /\ TrailerField(Len(builder.restarts)).value = U32(Len(builder.restarts))

\* three entries with a restart every two, finished: the third entry starts
\* the second restart, past the start of the buffer
C3_Witness ==
    /\ bcalls.out = "ok"
    /\ block_restart_interval = 2
    /\ Len(bcalls.added) = 3
    /\ bcalls.finishes = 1
    /\ Len(builder.restarts) = 2
    /\ builder.restarts[2] > 0
    /\ bcalls.added[2].key = <<97, 98>>

\* an iterator is open on a finished block that was cut before its trailer
Truncated == iter.out # "none" /\ bcalls.finishes = 1 /\ block # builder.buffer

\* C13: on a finished block truncated before its trailer no call of
\* seek_to_first, seek, seek_to_last or step aborts or fails to return, and
\* each of them leaves the iterator not valid with status Corruption.
C13_CorruptionContainment ==
    (Truncated /\ scan.from # "prev") =>
        /\ iter.out \in {"ok", "error"}
        /\ (iter.out = "ok" /\ scan.last # "none") =>
              /\ ~is_valid(iter)
              /\ iter.status = "Corruption"

\* C14: once the status of an iterator is Corruption, after each later
\* seek_to_first, seek_to_last or seek the call has returned, the status is
\* still Corruption, the iterator is not valid and its key is empty.
C14_CorruptionTerminal ==
    [][(/\ iter.out = "ok" /\ iter.status = "Corruption"
        /\ iter'.out # "none"
        /\ scan'.last \in {"seek_to_first", "seek_to_last", "seek"}) =>
           (/\ iter'.out = "ok"
            /\ iter'.status = "Corruption"
            /\ ~is_valid(iter')
            /\ iter'.key = <<>>)]_vars

\* C15: between finish() and the next reset() a call of add() or of
\* finish() aborts and leaves the buffer as it was; finish() on a builder
\* that is not finished returns.
C15_BuilderLifecycle ==
    /\ (bcalls.call.op = "add" /\ builder.finished) =>
          /\ bcalls.out = "panic"
          /\ Len(builder.buffer) = bcalls.before
    /\ (bcalls.call.op = "finish" /\ bcalls.finishes > 1) =>
          /\ bcalls.out = "panic"
          /\ Len(builder.buffer) = bcalls.before
    /\ (bcalls.call.op = "finish" /\ bcalls.finishes = 1) =>
          /\ bcalls.out = "ok"
          /\ builder.finished

\* the entries that were in the builder when the last call was made
AddedBefore ==
    IF bcalls.call.op = "add" /\ bcalls.out = "ok"
    THEN SubSeq(bcalls.added, 1, Len(bcalls.added) - 1)
    ELSE bcalls.added

\* the last call was add() with a key not above the last added key
AddOutOfOrder ==
    /\ bcalls.call.op = "add"
    /\ ~builder.finished
    /\ AddedBefore # <<>>
    /\ Compare(bcalls.call.key, AddedBefore[Len(AddedBefore)].key) <= 0

C17_EmptyIffNoEntry ==
    bcalls.out = "ok" => (BlockBuilder_empty(builder) <=> bcalls.added = <<>>)

\* C18: current_size_estimate() on an unfinished builder is buffer length +
\* 4 * restart points + 4, the length of the bytes finish() returns when it
\* is called in that state.
C18_SizeEstimate ==
    (bcalls.call.op = "finish" /\ bcalls.finishes = 1) =>
        /\ bcalls.estimate = bcalls.before + 4 * Len(builder.restarts) + 4
        /\ bcalls.estimate = Len(builder.buffer)
        /\ bcalls.added = <<>> => bcalls.estimate = 8

\* finish() was called on a builder with three entries and two restarts
C18_Witness ==
    /\ bcalls.call.op = "finish"
    /\ bcalls.finishes = 1
    /\ Len(bcalls.added) = 3
    /\ Len(builder.restarts) = 2
    /\ bcalls.estimate = bcalls.before + 12

\* C19: after reset() the builder's buffer, restart list, counter, finished
\* flag and last key are those of a new builder.
C19_ResetIsNew ==
    bcalls.call.op = "reset" =>
        /\ builder = BlockBuilder_new
        /\ bcalls.out = "ok"

\* reset() was called on a finished builder that held entries
C19_Witness ==
    /\ bcalls.call.op = "reset"
    /\ bcalls.before > 8
    /\ builder.buffer = <<>>
    /\ builder.restarts = <<0>>
    /\ ~builder.finished

\* an iterator is open on the bytes of a block that was finished once
WellFormed == bcalls.out = "ok" /\ bcalls.finishes = 1 /\ block = builder.buffer

\* C23: on a well-formed block prev() from a valid position on entry i leaves
\* the iterator valid on entry i-1 with its full key and value when i > 0 and
\* not valid when i = 0; prev() after a step() that left the iterator valid
\* shows the entry the iterator showed before the step.
C23_Prev ==
    [][(/\ WellFormed /\ iter.out = "ok" /\ is_valid(iter)
        /\ scan'.last = "prev") =>
           (/\ iter'.out = "ok"
            /\ \A i \in 1..Len(bcalls.added) :
                  iter.current = bcalls.added[i].offset =>
                     IF i > 1
                     THEN /\ iter'.current = bcalls.added[i - 1].offset
                          /\ Shown(iter', block) = <<Stored(i - 1)>>
                     ELSE ~is_valid(iter')
            /\ (scan.last = "step" /\ Len(scan.seen) >= 2) =>
                  Shown(iter', block) = <<scan.seen[Len(scan.seen) - 1]>>)]_vars

\* C24: on a well-formed block with at least one entry seek_to_last()
\* leaves the iterator valid on the last entry with status Ok, and
\* seek_to_first() leaves it valid on the first entry.
C24_SeekToLast ==
    (WellFormed /\ Len(bcalls.added) >= 1 /\ scan.last \in {"seek_to_last", "seek_to_first"}) =>
        /\ iter.out = "ok"
        /\ iter.status = "Ok"
        /\ is_valid(iter)
        /\ scan.seen = <<Stored(IF scan.last = "seek_to_last" THEN Len(bcalls.added) ELSE 1)>>

\* C25: on a well-formed block step() from a valid position on entry i
\* moves to the entry that starts after the value of entry i; from the last
\* entry it leaves the iterator not valid with status Ok; and it never
\* stands on an offset that is not the start of an entry.
C25_Exhaustion ==
    [][(/\ WellFormed /\ iter.out = "ok" /\ is_valid(iter)
        /\ scan'.last = "step") =>
           (/\ iter'.out = "ok"
            /\ \A i \in 1..Len(bcalls.added) :
                  iter.current = bcalls.added[i].offset =>
                     IF i < Len(bcalls.added)
                     THEN /\ is_valid(iter')
                          /\ iter'.current = bcalls.added[i].end
                     ELSE /\ ~is_valid(iter')
                          /\ iter'.status = "Ok"
            /\ is_valid(iter') =>
                  \E i \in 1..Len(bcalls.added) : iter'.current = bcalls.added[i].offset)]_vars

\* C26: on an iterator with at least one restart point every call of
\* seek() returns: the bisection ends and the linear scan after it ends.
C26_SeekTerminates ==
    (iter.num_restarts >= 1 /\ scan.last = "seek") => iter.out # "hang"

\* the entry at the second restart point, as seek() decodes it when it probes
ProbedEntry ==
    decode_entry(SliceFrom(block, AsUsize(decode_fixed32(SliceFrom(block, iter.restarts + 4),
                                                         endian).value)),
                 debug_build)

\* C27: when the entry at a restart point that seek() probes has shared # 0
\* or cannot be decoded, seek() returns with the iterator not valid, its
\* status Corruption and its key empty.  With two restart points the probe
\* is the second one.
C27_ProbeCorruption ==
    [][(/\ iter.out = "ok" /\ iter.num_restarts = 2
        /\ scan'.last = "seek" /\ iter'.out # "none"
        /\ (ProbedEntry.tag # "Ok" \/ ProbedEntry.shared # 0)) =>
           (/\ iter'.out = "ok"
            /\ ~is_valid(iter')
            /\ iter'.status = "Corruption"
            /\ iter'.key = <<>>)]_vars

\* counter is within the interval, and the restart list is not empty, starts
\* with 0, is strictly increasing and points nowhere past the buffer
RestartsInShape ==
    /\ 0 <= builder.counter
    /\ builder.counter <= block_restart_interval
    /\ builder.restarts # <<>>
    /\ builder.restarts[1] = 0
    /\ \A k \in 1..(Len(builder.restarts) - 1) : builder.restarts[k] < builder.restarts[k + 1]
    /\ \A k \in 1..Len(builder.restarts) : builder.restarts[k] <= Len(builder.buffer)

\* the k-th restart is the buffer offset at which an added entry begins
RestartIsEntry(k) ==
    \E i \in 1..Len(bcalls.added) : bcalls.added[i].offset = builder.restarts[k]

\* C34 as stated: in every state that new, add and reset reach before
\* finish(), 0 <= counter <= block_restart_interval, the restart list is not
\* empty, starts with 0, is strictly increasing, and each of its elements is
\* the buffer offset at which some added entry begins, hence at most the
\* buffer length.
C34_AsStated ==
    ~builder.finished =>
        /\ RestartsInShape
        /\ \A k \in 1..Len(builder.restarts) : RestartIsEntry(k)

\* C34: in every state that new, add and reset reach before finish(),
\* 0 <= counter <= block_restart_interval, the restart list is not empty,
\* starts with 0, is strictly increasing, each element is at most the buffer
\* length, and each element is the buffer offset at which some added entry
\* begins, except that a builder without entries holds the one restart 0.
C34_BuilderInvariant ==
    ~builder.finished =>
        /\ RestartsInShape
        /\ IF bcalls.added = <<>>
           THEN builder.restarts = <<0>>
           ELSE \A k \in 1..Len(builder.restarts) : RestartIsEntry(k)

\* three entries with a restart at every entry, not finished: counter stands
\* at the interval and the third restart is past the second
C34_Witness ==
    /\ ~builder.finished
    /\ bcalls.out = "ok"
    /\ bcalls.call.op = "add"
    /\ block_restart_interval = 1
    /\ builder.counter = block_restart_interval
    /\ Len(bcalls.added) = 3
    /\ Len(builder.restarts) = 3
    /\ builder.restarts[3] > builder.restarts[2]
    /\ builder.restarts[3] = bcalls.added[3].offset

\* the bytes add() is to append for the last added entry: the header fields
\* as one-byte varints, the key from shared on, and the value
LastEntryBytes(shared) ==
    <<shared, Len(bcalls.call.key) - shared, Len(bcalls.call.value)>>
    \o SliceFrom(bcalls.call.key, shared) \o bcalls.call.value

\* C28: add(key, value) appends shared_len, non_shared_len = len(key) -
\* shared_len and value_len as varint32 values, then the key bytes from
\* shared_len on, then the value bytes; shared_len is the length of the
\* prefix key shares with the previous key when no restart is taken, else 0.
C28_EntryLayout ==
    (bcalls.out = "ok" /\ bcalls.call.op = "add") =>
        SliceFrom(builder.buffer, bcalls.before) =
            LastEntryBytes(IF Len(bcalls.added) \in OnRestart THEN 0
                           ELSE shared_loop(bcalls.added[Len(bcalls.added) - 1].key,
                                            bcalls.call.key, 0,
                                            Min(Len(bcalls.added[Len(bcalls.added) - 1].key),
                                                Len(bcalls.call.key))))

---------------------------------------------------------------------------
(* Claims about decode_entry, checked under EntrySpec *)

\* a varint32 at the front of p: at most five bytes of seven bits each, low
\* bits first, the last byte below 128; Err when p ends first or a fifth
\* byte still has its top bit set
RECURSIVE Varint32At(_, _, _)
Varint32At(p, i, acc) ==
    IF i >= 5 \/ p = <<>> THEN Err("Other")
    ELSE IF p[1] >= 128
         THEN Varint32At(Tail(p), i + 1, acc + (p[1] - 128) * 128 ^ i)
         ELSE Ok(Tail(p), acc + p[1] * 128 ^ i)

\* three varint32 values from the front of p and the length check
HeaderAt(p) ==
    LET f1 == Varint32At(p, 0, 0)
        f2 == IF f1.tag = "Ok" THEN Varint32At(f1.slice, 0, 0) ELSE f1
        f3 == IF f2.tag = "Ok" THEN Varint32At(f2.slice, 0, 0) ELSE f2
    IN  IF Len(p) < 3 \/ f3.tag # "Ok" THEN EntryFailed("Err")
        ELSE IF Len(f3.slice) < f2.value + f3.value THEN EntryFailed("Err")
        ELSE DecodedEntry(f3.slice, f1.value, f2.value, f3.value)

\* C29: for every slice decode_entry returns the three varint32 values at the
\* front of the slice and the slice after them, on the fast path and on the
\* fallback path, and returns an error, without aborting, when fewer than 3
\* bytes remain, a varint is truncated or over-long, or non_shared +
\* value_length exceeds what remains.
C29_DecodeEntry ==
    ecall.op = "decode_entry" => ecall.res = HeaderAt(ecall.p)

---------------------------------------------------------------------------
(* Claims about Table::open, checked under TableSpec *)

\* C20: Table.open with a size smaller than the footer length returns a
\* Corruption error, with no seek or read issued on the file and no table
\* constructed.
C20_OpenTooShort ==
    (table.op = "open" /\ table.size < ENCODED_LENGTH) =>
        /\ table.res = Err("Corruption")
        /\ table.log = <<>>
        /\ ~table.made

\* open was called with size 47 on a file that ends in a footer
C20_Witness ==
    /\ table.op = "open"
    /\ table.size = ENCODED_LENGTH - 1
    /\ Len(table.file) = ENCODED_LENGTH + 1
    /\ SliceFrom(table.file, Len(table.file) - 8) = MagicBytes
    /\ table.res = Err("Corruption")

---------------------------------------------------------------------------
(* Claims about iterators over one block, checked under ReadersSpec *)

C22_Unpositioned ==
    readers.open =>
        /\ \A r \in 1..2 :
              (~readers.sought[r] /\ readers.its[r].out = "ok") => ~is_valid(readers.its[r])
        /\ (readers.last.op \in {"key", "value", "step", "prev"} /\ ~readers.last.was_valid) =>
              /\ readers.last.ret = Panic
              /\ readers.its[readers.last.r] = Aborted(readers.last.before)

\* step() was called on an iterator that a seek had left not valid
C22_Witness ==
    /\ readers.open
    /\ readers.last.op = "step"
    /\ ~readers.last.was_valid
    /\ readers.sought[readers.last.r]
    /\ readers.last.ret = Panic

\* the index handle in the footer of the file that was opened
OpenedIndexHandle ==
    Footer_decode_from(Footer_new, SliceFrom(table.file, Len(table.file) - ENCODED_LENGTH),
                       endian).footer.index_handle

\* C30: read_block seeks to handle.offset and reads handle.size + 5 bytes; a
\* seek that fails is returned as an I/O error; on a file that holds those
\* bytes the call does not abort.
C30_ReadBlock ==
    (table.op = "open" /\ Len(table.log) >= 3) =>
        /\ table.log[3] = FileOp("seek_start", 0, OpenedIndexHandle.offset)
        /\ Len(table.log) = 3 => table.res = Err("IOError")
        /\ Len(table.log) > 3 =>
              /\ table.log[4] = FileOp("read_exact",
                                       AsUsize(OpenedIndexHandle.size) + BLOCK_TRAILER_SIZE,
                                       Zero(W64))
              /\ table.res.tag # "Panic"

\* the byte of the opened file at OpenedIndexHandle.offset +
\* OpenedIndexHandle.size: the type byte of the index block
IndexTypeByte ==
    table.file[AsUsize(OpenedIndexHandle.offset) + AsUsize(OpenedIndexHandle.size) + 1]

\* the file holds the index block and its trailer
IndexBlockInFile ==
    AsUsize(OpenedIndexHandle.offset) + AsUsize(OpenedIndexHandle.size) + BLOCK_TRAILER_SIZE
        <= Len(table.file)

\* C31: the byte at position handle.size of the bytes read_block read
\* selects the outcome: 0 yields the contents, 1 yields the decompressed
\* payload or Corruption, every other value yields Corruption and no
\* contents, so that no table is constructed.
C31_TypeDispatch ==
    (table.op = "open" /\ Len(table.log) = 4 /\ IndexBlockInFile) =>
        /\ IndexTypeByte = 0 => table.res.tag = "Ok" /\ table.made
        /\ IndexTypeByte = 1 =>
              \/ table.res.tag = "Ok" /\ table.made
              \/ table.res = Err("Corruption") /\ ~table.made
        /\ IndexTypeByte \notin {0, 1} => table.res = Err("Corruption") /\ ~table.made

\* the kinds of the calls open made on the file, in order
RECURSIVE OpKinds(_)
OpKinds(log) == IF log = <<>> THEN <<>> ELSE <<Head(log).op>> \o OpKinds(Tail(log))

\* the footer open decodes from the last ENCODED_LENGTH bytes of the file
OpenedFooter ==
    Footer_decode_from(Footer_new, SliceFrom(table.file, Len(table.file) - ENCODED_LENGTH),
                       endian)

\* C32: Table.open performs the size check, the footer read at file_size -
\* footer_length, the footer decode and the index-block read in this order,
\* returns the first error and constructs the table only when all succeed;
\* the index-block read is issued with verify_checksums equal to the
\* paranoid_checks option.
C32_OpenSequence ==
    table.op = "open" =>
        /\ table.size < ENCODED_LENGTH <=> table.log = <<>>
        /\ OpKinds(table.log) =
              SubSeq(<<"seek_end", "read_exact", "seek_start", "read_exact">>, 1, Len(table.log))
        /\ Len(table.log) = 1 => table.res = Err("IOError")
        /\ Len(table.log) = 2 => table.res = OpenedFooter.res /\ table.res.tag # "Ok"
        /\ Len(table.log) >= 3 =>
              /\ OpenedFooter.res.tag = "Ok"
              /\ table.log[3].at = OpenedFooter.footer.index_handle.offset
              /\ table.verify_checksums = table.paranoid_checks
        /\ table.made => Len(table.log) = 4
        /\ table.res.tag = "Ok" => table.made

=============================================================================
